---- MODULE Spec2Model ----
(***************************************************************************)
(* go-billy-siva: a billy filesystem over one append-only siva archive.    *)
(*                                                                         *)
(* The model follows src/filesystem.go (sivaFS) and the file handle of     *)
(* src/unnamed/part_001 (lines 97-263); the older handle of src/file.go,   *)
(* which has no closed check in Read/ReadAt/Seek/Write, is the second      *)
(* value of fileImpl and runs under SpecFileGo.                            *)
(*                                                                         *)
(* Strings are sequences of one-character strings, so that prefix tests,   *)
(* Split, Join and Clean are computed on characters as the code does.      *)
(* The siva codec (go-siva) is a collaborator outside src/: its writer     *)
(* (WriteHeader, Write, Flush, Close) and reader (Index, Get) are modelled *)
(* at the places sivaFS calls them.                                        *)
(***************************************************************************)
EXTENDS Integers, Sequences, FiniteSets, TLC

\* ------------------------------------------------------------- bounds
MaxLog == 2       \* entry headers appended to the container the run starts with
MaxData == 2      \* content bytes in the archive
MaxFiles == 2     \* file handles the caller holds at once
MaxReaders == 1   \* read handles among them
MaxEntries == 3   \* entries of a container that other tools have written
MaxTime == 2      \* modification times of those entries
MaxTruncLog == 4  \* entry headers appended, those of Truncate included
MaxTruncData == 3 \* content bytes in the archive, those Truncate rewrites included

\* ------------------------------------------------------------- strings
Separator == "/"

RECURSIVE SplitRec(_, _)
SplitRec(s, cur) ==
    IF s = <<>> THEN <<cur>>
    ELSE IF Head(s) = "/" THEN <<cur>> \o SplitRec(Tail(s), <<>>)
    ELSE SplitRec(Tail(s), Append(cur, Head(s)))

\* strings.Split(s, "/")
Split(s) == SplitRec(s, <<>>)

\* strings.Join(parts, "/")
RECURSIVE Join(_)
Join(parts) ==
    IF parts = <<>> THEN <<>>
    ELSE IF Len(parts) = 1 THEN parts[1]
    ELSE parts[1] \o <<"/">> \o Join(Tail(parts))

DotDot == <<".", ".">>

RECURSIVE CleanSegs(_, _, _)
CleanSegs(segs, stack, rooted) ==
    IF segs = <<>> THEN stack
    ELSE LET s == Head(segs)
             rest == Tail(segs)
         IN  IF s = <<>> \/ s = <<".">> THEN CleanSegs(rest, stack, rooted)
             ELSE IF s = DotDot
                  THEN IF stack # <<>> /\ stack[Len(stack)] # DotDot
                       THEN CleanSegs(rest, SubSeq(stack, 1, Len(stack) - 1), rooted)
                       ELSE IF rooted THEN CleanSegs(rest, stack, rooted)
                       ELSE CleanSegs(rest, Append(stack, s), rooted)
             ELSE CleanSegs(rest, Append(stack, s), rooted)

\* path.Clean / filepath.Clean
Clean(p) ==
    IF p = <<>> THEN <<".">>
    ELSE LET rooted == p[1] = "/"
             out == (IF rooted THEN <<"/">> ELSE <<>>)
                        \o Join(CleanSegs(Split(p), <<>>, rooted))
         IN  IF out = <<>> THEN <<".">> ELSE out

\* filepath.Join(a, b): empty elements are ignored, the rest joined and cleaned
FilepathJoin(a, b) ==
    LET parts == SelectSeq(<<a, b>>, LAMBDA x : x # <<>>)
    IN  IF parts = <<>> THEN <<>> ELSE Clean(Join(parts))

\* filepath.ToSlash
ToSlash(p) == [i \in 1..Len(p) |-> IF p[i] = Separator THEN "/" ELSE p[i]]

HasPrefix(s, pre) == Len(s) >= Len(pre) /\ SubSeq(s, 1, Len(pre)) = pre

HasSuffix(s, suf) ==
    Len(s) >= Len(suf) /\ SubSeq(s, Len(s) - Len(suf) + 1, Len(s)) = suf

removeLeadingSlash(p) == IF HasPrefix(p, <<"/">>) THEN Tail(p) ELSE p

\* The paths callers pass: "a", "../a", "/a/b", "a/./b", "", "/", ".", "b"
Paths ==
    { <<"a">>, <<".", ".", "/", "a">>, <<"/", "a", "/", "b">>,
      <<"a", "/", ".", "/", "b">>, <<>>, <<"/">>, <<".">>, <<"b">> }

\* The names of the entries of the containers that other tools have written
ArchiveNames ==
    { <<"a">>, <<"a", "b">>, <<"a", "/", "b">>, <<"a", "/", "c">>,
      <<"a", "/", "b", "/", "c">> }

\* The paths those containers are read with
ArchivePaths == ArchiveNames \cup { <<>>, <<"/">>, <<"b">>, <<"/", "a", "/">> }

\* Paths that climb above the root: "..", "../..", "a/../../b", "/../a/b"
ClimbPaths ==
    { <<".", ".">>, <<".", ".", "/", ".", ".">>,
      <<"a", "/", ".", ".", "/", ".", ".", "/", "b">>,
      <<"/", ".", ".", "/", "a", "/", "b">> }

\* The paths of Paths and ClimbPaths behind a slash
SlashPaths == { <<"/">> \o p : p \in Paths \cup ClimbPaths }

\* variant of normalizePath that takes the path as it is given
normalizePath_asGiven(p) == p

\* normalizePath, step by step
normalizePathSteps(p) == removeLeadingSlash(ToSlash(FilepathJoin(<<Separator>>, p)))

\* the paths of the model, as passed and as normalized
KnownPaths ==
    LET given == Paths \cup ArchivePaths \cup ClimbPaths \cup SlashPaths
    IN  given \cup { normalizePathSteps(p) : p \in given }

\* normalizePath over the paths of the model, computed once
normalizePathTable == [p \in KnownPaths |-> normalizePathSteps(p)]

normalizePath(p) ==
    IF p \in KnownPaths THEN normalizePathTable[p] ELSE normalizePathSteps(p)

\* variant of addTrailingSlash that adds nothing
addTrailingSlash_never(p) == p

addTrailingSlash(p) ==
    IF p = <<>> THEN p
    ELSE IF ~HasSuffix(p, <<"/">>) THEN p \o <<"/">> ELSE p

\* The paths the modelled calls are made with
CallPaths == { <<"a">>, <<".", ".", "/", "a">>, <<"/", "a", "/", "b">>, <<"/">> }

\* The paths Stat, ReadDir and MkdirAll are called with
ProbePaths == { <<"a">>, <<"/">> }

\* The paths files are created under
CreatePaths == { <<"a">>, <<".", ".", "/", "a">>, <<"/", "a", "/", "b">> }

\* ------------------------------------------------------------- open flags
\* os.O_RDONLY is 0: a flag word is the set of the bits it carries.
O_RDONLY == {}
O_WRONLY == {"O_WRONLY"}
O_RDWR == {"O_RDWR"}
O_CREATE == {"O_CREATE"}
O_TRUNC == {"O_TRUNC"}

\* flag & bits != 0
HasFlag(flag, bits) == flag \cap bits # {}

Flags == SUBSET {"O_WRONLY", "O_RDWR", "O_CREATE", "O_TRUNC"}

\* The flags Create passes (filesystem.go:155)
CreateFlag == O_WRONLY \cup O_CREATE \cup O_TRUNC

\* The flag words the modelled calls are made with
UnsupportedFlags ==
    { O_CREATE, O_RDWR, O_WRONLY, O_CREATE \cup O_TRUNC \cup O_RDWR }

CallFlags == { O_RDONLY, CreateFlag, O_CREATE \cup O_TRUNC } \cup UnsupportedFlags

\* ------------------------------------------------------------- state
VARIABLES
    options,            \* SivaFSOptions: [ReadOnly, Offset]
    fileImpl,           \* which file handle implementation is linked in
    origin,             \* the entries the container held when the run started
    exists,             \* the container file exists in the underlying filesystem
    fdata,              \* the content bytes the container holds, in append order
    disk,               \* the entries of the index blocks written to the container
    r,                  \* fs.r # nil: the archive session is open
    rw,                 \* fs.rw # nil: the session has a writer
    windex,             \* the writer's index: the entries of this session
    current,            \* the writer has an entry in progress (the last of windex)
    fileWriteModeOpen,  \* sivaFS.fileWriteModeOpen
    files,              \* the file handles the caller holds
    rt,                 \* observer: the write/close/sync sequence in progress
    removed,            \* observer: names removed and not created since
    calls               \* the OpenFile calls in progress, one per concurrent caller

vars == <<options, fileImpl, origin, exists, fdata, disk, r, rw, windex, current,
          fileWriteModeOpen, files, rt, removed, calls>>

Handles == 1..MaxFiles

Min(a, b) == IF a < b THEN a ELSE b

NoFile ==
    [st |-> "none", kind |-> "r", name |-> <<>>, flag |-> {}, stale |-> FALSE,
     start |-> 0, size |-> 0, pos |-> 0]

NoInfo == [name |-> <<>>, size |-> 0, isDir |-> FALSE, modTime |-> 0]

\* the callers that may run OpenFile at the same time
Callers == 1..2

NoCall == [pc |-> "idle", name |-> <<>>, flag |-> {}, err |-> "nil", h |-> 0]

\* ------------------------------------------------------------- index
\* The append log the session reads: the persisted entries, then the writer's.
Log == disk \o windex

\* variant of readerIndex that reads the latest index whatever the offset
readerIndex_latest == Log

\* siva.NewReaderWithOffset (filesystem.go:341): a read-only session reads the
\* index blocks that end at options.Offset, the latest when it is 0; the
\* offset is counted in entries. NewReaderWriter (line 353) takes no offset.
readerIndex ==
    IF options.ReadOnly /\ options.Offset # 0
    THEN SubSeq(disk, 1, Min(options.Offset, Len(disk)))
    ELSE Log

RECURSIVE FilterFrom(_, _)
FilterFrom(ix, i) ==
    IF i > Len(ix) THEN <<>>
    ELSE (IF /\ \A j \in (i + 1)..Len(ix) : ix[j].Name # ix[i].Name
             /\ ~ix[i].Deleted
          THEN <<ix[i]>> ELSE <<>>) \o FilterFrom(ix, i + 1)

\* variant of Filter that keeps the earliest entry of each name
Filter_first(ix) ==
    LET kept == SelectSeq([i \in 1..Len(ix) |-> i],
                    LAMBDA i : /\ \A j \in 1..(i - 1) : ix[j].Name # ix[i].Name
                               /\ ~ix[i].Deleted)
    IN  [k \in 1..Len(kept) |-> ix[kept[k]]]

\* siva Index.Filter: the latest entry of each name, unless it is a tombstone
Filter(ix) == FilterFrom(ix, 1)

\* siva Index.ToSafePaths: names made safe, the latest of equal names kept
ToSafePaths(ix) ==
    Filter([i \in 1..Len(ix) |-> [ix[i] EXCEPT !.Name = normalizePath(ix[i].Name)]])

\* sivaFS.getIndex
getIndex == ToSafePaths(Filter(readerIndex))

\* Index.Find as a position: 0 when no entry has the name
FindPos(index, name) ==
    IF \E i \in 1..Len(index) : index[i].Name = name
    THEN CHOOSE i \in 1..Len(index) : index[i].Name = name
    ELSE 0

\* filepath.Match(dir + "*", name): the star matches no separator
GlobStar(name, dir) ==
    /\ HasPrefix(name, dir)
    /\ \A i \in (Len(dir) + 1)..Len(name) : name[i] # "/"

\* path.Base
Base(p) ==
    LET c == Clean(p)
        segs == Split(c)
    IN  IF c = <<"/">> THEN c ELSE segs[Len(segs)]

newFileInfo(e) ==
    [name |-> Base(e.Name), size |-> e.Size, isDir |-> FALSE, modTime |-> e.ModTime]

newDirFileInfo(p, modTime) ==
    [name |-> Base(p), size |-> 0, isDir |-> TRUE, modTime |-> modTime]

\* variant of oldDir that takes the time of the last entry
oldDir_last(entries, i) ==
    IF entries = <<>> THEN 0 ELSE entries[Len(entries)].ModTime

\* the loop of getDir and listDirs over ModTime: the latest of the entries,
\* the zero time when there is none
RECURSIVE oldDir(_, _)
oldDir(entries, i) ==
    IF i > Len(entries) THEN 0
    ELSE LET rest == oldDir(entries, i + 1)
         IN  IF rest < entries[i].ModTime THEN entries[i].ModTime ELSE rest

\* variant of getDir that finds no directory
getDir_none(index, d) == <<>>

\* getDir: the synthesized directory at dir, <<>> when no entry lies under it
getDir(index, d) ==
    LET dir == addTrailingSlash(d)
        lenDir == Len(dir)
        entries == SelectSeq(index,
            LAMBDA e : Len(e.Name) > lenDir /\ SubSeq(e.Name, 1, lenDir) = dir)
    IN  IF Len(entries) = 0 THEN <<>>
        ELSE <<newDirFileInfo(Clean(dir), oldDir(entries, 1))>>

listFiles(index, d) ==
    LET dir == addTrailingSlash(d)
        entries == SelectSeq(index, LAMBDA e : GlobStar(e.Name, dir))
    IN  [i \in 1..Len(entries) |-> newFileInfo(entries[i])]

\* strings.Count(s, "/")
Count(s) == Cardinality({i \in 1..Len(s) : s[i] = "/"})

\* variant of listDirsFrom that lists a directory once for every entry under it
RECURSIVE listDirsFrom_all(_, _, _, _)
listDirsFrom_all(index, dir, i, dirOrder) ==
    IF i > Len(index) THEN dirOrder
    ELSE LET e == index[i]
             depth == Count(dir)
             targetParts == Split(e.Name)
             sub == Join(SubSeq(targetParts, 1, depth + 1))
         IN  IF ~HasPrefix(e.Name, dir) \/ Len(targetParts) <= depth + 1
             THEN listDirsFrom_all(index, dir, i + 1, dirOrder)
             ELSE listDirsFrom_all(index, dir, i + 1, Append(dirOrder, sub))

RECURSIVE listDirsFrom(_, _, _, _)
listDirsFrom(index, dir, i, dirOrder) ==
    IF i > Len(index) THEN dirOrder
    ELSE LET e == index[i]
             depth == Count(dir)
             targetParts == Split(e.Name)
             sub == Join(SubSeq(targetParts, 1, depth + 1))
         IN  IF ~HasPrefix(e.Name, dir) \/ Len(targetParts) <= depth + 1
             THEN listDirsFrom(index, dir, i + 1, dirOrder)
             ELSE IF \E k \in 1..Len(dirOrder) : dirOrder[k] = sub
             THEN listDirsFrom(index, dir, i + 1, dirOrder)
             ELSE listDirsFrom(index, dir, i + 1, Append(dirOrder, sub))

listDirs(index, d) ==
    LET dir == addTrailingSlash(d)
        depth == Count(dir)
        dirOrder == listDirsFrom(index, dir, 1, <<>>)
        under(sub) == SelectSeq(index, LAMBDA e :
            /\ HasPrefix(e.Name, dir)
            /\ Len(Split(e.Name)) > depth + 1
            /\ Join(SubSeq(Split(e.Name), 1, depth + 1)) = sub)
    IN  [i \in 1..Len(dirOrder) |->
            newDirFileInfo(dirOrder[i], oldDir(under(dirOrder[i]), 1))]

\* ------------------------------------------------------------- writer
\* variant of flushSize that records no content
flushSize_zero(e) == 0

\* siva writer.Flush: the entry in progress gets its size
flushSize(e) == Len(fdata) - e.Start

Flushed(wi, cur) ==
    IF cur THEN [wi EXCEPT ![Len(wi)].Size = flushSize(wi[Len(wi)])] ELSE wi

\* time.Now() of createFile and Remove, read as the count of the headers
\* written so far: a clock that never runs backwards
Now(wi) == Len(disk) + Len(wi) + 1

\* variant of WriteHeader that never flags the entry deleted
WriteHeader_live(wi, cur, name, deleted) ==
    Append(Flushed(wi, cur),
           [Name |-> name, Start |-> Len(fdata), Size |-> 0, Deleted |-> FALSE,
            ModTime |-> Now(wi)])

\* siva writer.WriteHeader: flush what is pending, then begin the new entry
WriteHeader(wi, cur, name, deleted) ==
    Append(Flushed(wi, cur),
           [Name |-> name, Start |-> Len(fdata), Size |-> 0, Deleted |-> deleted,
            ModTime |-> Now(wi)])

\* variant of indexWriteTo that writes no index block
indexWriteTo_dropped(d, wi) == d

\* variant of indexWriteTo that writes the session's index before the others
indexWriteTo_first(d, wi) == wi \o d

\* siva writer.Close: the session's index is written behind its content
indexWriteTo(d, wi) == d \o wi

\* ------------------------------------------------------------- session
\* ensureOpen fails only when a read-only session finds no container
ensureOpenFails == ~r /\ options.ReadOnly /\ ~exists

\* fs.rw # nil once ensureOpen has returned
rwAfterOpen == IF r THEN rw ELSE ~options.ReadOnly

ensureOpen ==
    /\ r' = TRUE
    /\ rw' = rwAfterOpen
    /\ exists' = TRUE

HasFree == \E h \in Handles : files[h].st = "none"

FreeSlot == CHOOSE h \in Handles :
    files[h].st = "none" /\ \A g \in Handles : files[g].st = "none" => h <= g

Readers == { h \in Handles : files[h].st # "none" /\ files[h].kind = "r" }

\* ------------------------------------------------------------- Init
Entry(name, start, size) ==
    [Name |-> name, Start |-> start, Size |-> size, Deleted |-> FALSE, ModTime |-> 1]

\* The container before the first call: absent, empty, or holding one file,
\* "a/b" = <<1>> or "a" = <<1>>
InitContainers ==
    { [exists |-> FALSE, disk |-> <<>>, fdata |-> <<>>],
      [exists |-> TRUE, disk |-> <<>>, fdata |-> <<>>],
      [exists |-> TRUE, disk |-> <<Entry(<<"a", "/", "b">>, 0, 1)>>, fdata |-> <<1>>],
      [exists |-> TRUE, disk |-> <<Entry(<<"a">>, 0, 1)>>, fdata |-> <<1>>] }

IdleRt == [stage |-> "idle", h |-> 0, name |-> <<>>, bytes |-> <<>>, rh |-> 0]

InitWith(impl) ==
    /\ options \in [ReadOnly : BOOLEAN, Offset : {0}]
    /\ fileImpl = impl
    /\ \E c \in InitContainers :
          /\ exists = c.exists
          /\ disk = c.disk
          /\ origin = Len(c.disk)
          /\ fdata = c.fdata
    /\ r = FALSE
    /\ rw = FALSE
    /\ windex = <<>>
    /\ current = FALSE
    /\ fileWriteModeOpen = FALSE
    /\ files = [h \in Handles |-> NoFile]
    /\ rt = IdleRt
    /\ removed = {}
    /\ calls = [c \in Callers |-> NoCall]

Init == InitWith("part_001")

InitFileGo == InitWith("file.go")

\* ------------------------------------------------------------- OpenFile
\* variant of readOnlyRejects that lets every flag word through
readOnlyRejects_never(flag) == FALSE

\* filesystem.go:167: a session without a writer takes no mutating flag
readOnlyRejects(flag) ==
    ~rwAfterOpen /\ HasFlag(flag, O_CREATE \cup O_TRUNC \cup O_WRONLY)

\* variant of createFileUnsupported that accepts every flag word
createFileUnsupported_never(flag) == FALSE

\* filesystem.go:385
createFileUnsupported(flag) == HasFlag(flag, O_RDWR) \/ HasFlag(flag, O_RDONLY)

\* filesystem.go:416
openFileUnsupported(flag) == HasFlag(flag, O_RDWR) \/ HasFlag(flag, O_WRONLY)

\* variant of writeModeBusy that never sees an open write session
writeModeBusy_never == FALSE

\* filesystem.go:177
writeModeBusy == fileWriteModeOpen

\* filesystem.go:411: the deferred fs.fileWriteModeOpen = true
deferredWriteModeOpen == TRUE

\* filesystem.go:404: closeFunc clears the flag for these handles only
closeFuncClears(flag) == HasFlag(flag, O_WRONLY) \/ HasFlag(flag, O_RDWR)

\* the error createFile returns
createFileErr(flag) == IF createFileUnsupported(flag) THEN "ErrNotSupported" ELSE "nil"

\* the error openFile returns
openFileErr(name, flag) ==
    IF openFileUnsupported(flag) THEN "ErrNotSupported"
    ELSE IF FindPos(getIndex, name) = 0 THEN "ErrNotExist"
    ELSE "nil"

\* the error OpenFile returns, in the order of its checks
OpenFileErr(path, flag) ==
    IF ensureOpenFails THEN "ErrUnderlying"
    ELSE IF readOnlyRejects(flag) THEN "ErrReadOnlyFilesystem"
    ELSE IF HasFlag(flag, O_CREATE) /\ ~HasFlag(flag, O_TRUNC) THEN "ErrNotSupported"
    ELSE IF HasFlag(flag, O_CREATE)
         THEN IF writeModeBusy THEN "ErrFileWriteModeAlreadyOpen" ELSE createFileErr(flag)
    ELSE openFileErr(normalizePath(path), flag)

\* newFile: the write handle createFile returns
newFile(name, flag) ==
    [NoFile EXCEPT !.st = "open", !.kind = "w", !.name = name, !.flag = flag]

\* openFile over rw.Get(e): the read handle sivaFS.openFile returns
openedFile(name, flag) ==
    LET index == getIndex
        e == index[FindPos(index, name)]
    IN  [NoFile EXCEPT !.st = "open", !.kind = "r", !.name = name, !.flag = flag,
                       !.start = e.Start, !.size = e.Size]

createFile(name, flag) ==
    /\ Len(Log) - origin < MaxLog
    /\ HasFree
    /\ windex' = WriteHeader(windex, current, name, FALSE)
    /\ current' = TRUE
    /\ fileWriteModeOpen' = (IF deferredWriteModeOpen THEN TRUE ELSE fileWriteModeOpen)
    /\ files' = [files EXCEPT ![FreeSlot] = newFile(name, flag)]

openFile(name, flag) ==
    /\ HasFree
    /\ Cardinality(Readers) < MaxReaders
    /\ files' = [files EXCEPT ![FreeSlot] = openedFile(name, flag)]
    /\ UNCHANGED <<windex, current, fileWriteModeOpen>>

OpenFile(path, flag) ==
    LET name == normalizePath(path)
        err == OpenFileErr(path, flag)
    IN  /\ IF ensureOpenFails THEN UNCHANGED <<exists, r, rw>> ELSE ensureOpen
        /\ IF err # "nil"
           THEN UNCHANGED <<windex, current, fileWriteModeOpen, files>>
           ELSE IF HasFlag(flag, O_CREATE) THEN createFile(name, flag)
           ELSE openFile(name, flag)
        /\ UNCHANGED <<options, fileImpl, origin, fdata, disk>>

\* ------------------------------------------------------------- Stat, ReadDir
\* what Stat returns: the error and the file info
StatResult(path) ==
    LET p == normalizePath(path)
        index == getIndex
        i == FindPos(index, p)
        stat == getDir(index, p)
    IN  IF ensureOpenFails THEN [err |-> "ErrUnderlying", info |-> NoInfo]
        ELSE IF i # 0 THEN [err |-> "nil", info |-> newFileInfo(index[i])]
        ELSE IF stat = <<>> THEN [err |-> "ErrNotExist", info |-> NoInfo]
        ELSE [err |-> "nil", info |-> stat[1]]

Stat(path) ==
    LET res == StatResult(path)
    IN  /\ IF ensureOpenFails THEN UNCHANGED <<exists, r, rw>> ELSE ensureOpen
        /\ UNCHANGED <<options, fileImpl, origin, fdata, disk, windex, current,
                       fileWriteModeOpen, files>>

\* what ReadDir returns: the error and the list, directories first
ReadDirResult(path) ==
    LET p == normalizePath(path)
        index == getIndex
    IN  IF ensureOpenFails THEN [err |-> "ErrUnderlying", list |-> <<>>]
        ELSE [err |-> "nil", list |-> listDirs(index, p) \o listFiles(index, p)]

ReadDir(path) ==
    LET res == ReadDirResult(path)
    IN  /\ IF ensureOpenFails THEN UNCHANGED <<exists, r, rw>> ELSE ensureOpen
        /\ UNCHANGED <<options, fileImpl, origin, fdata, disk, windex, current,
                       fileWriteModeOpen, files>>

\* ------------------------------------------------------------- MkdirAll, Remove
\* variant of MkdirAllErr that finds no file in the way
MkdirAllErr_noConflict(path) ==
    IF ensureOpenFails THEN "ErrUnderlying"
    ELSE IF ~rwAfterOpen THEN "ErrReadOnlyFilesystem"
    ELSE "nil"

MkdirAllErr(path) ==
    IF ensureOpenFails THEN "ErrUnderlying"
    ELSE IF ~rwAfterOpen THEN "ErrReadOnlyFilesystem"
    ELSE IF FindPos(getIndex, normalizePath(path)) # 0 THEN "ENOTDIR"
    ELSE "nil"

MkdirAll(path) ==
    LET err == MkdirAllErr(path)
    IN  /\ IF ensureOpenFails THEN UNCHANGED <<exists, r, rw>> ELSE ensureOpen
        /\ UNCHANGED <<options, fileImpl, origin, fdata, disk, windex, current,
                       fileWriteModeOpen, files>>

RemoveErr(path) ==
    LET p == normalizePath(path)
        index == getIndex
    IN  IF ensureOpenFails THEN "ErrUnderlying"
        ELSE IF ~rwAfterOpen THEN "ErrReadOnlyFilesystem"
        ELSE IF FindPos(index, p) # 0 THEN "nil"
        ELSE IF getDir(index, p) # <<>> THEN "ENOTEMPTY"
        ELSE "ErrNotExist"

Remove(path) ==
    LET p == normalizePath(path)
        err == RemoveErr(path)
    IN  /\ IF ensureOpenFails THEN UNCHANGED <<exists, r, rw>> ELSE ensureOpen
        /\ IF err = "nil"
           THEN /\ Len(Log) - origin < MaxLog
                /\ windex' = WriteHeader(windex, current, p, TRUE)
                /\ current' = TRUE
           ELSE UNCHANGED <<windex, current>>
        /\ UNCHANGED <<options, fileImpl, origin, fdata, disk, fileWriteModeOpen, files>>

RenameErr(from, to) == "ErrNotSupported"

Rename(from, to) ==
    /\ UNCHANGED <<options, fileImpl, origin, exists, fdata, disk, r, rw, windex, current,
                   fileWriteModeOpen, files>>

\* ------------------------------------------------------------- Sync
\* variant of ensureClosed that leaves the session open
ensureClosed_noop == UNCHANGED <<disk, r, rw, windex, current, files>>

\* variant of ensureClosed that writes the index without the entry in progress
ensureClosed_unflushed ==
    IF ~r
    THEN UNCHANGED <<disk, r, rw, windex, current, files>>
    ELSE /\ disk' = (IF rw
                     THEN indexWriteTo(disk,
                            IF current THEN SubSeq(windex, 1, Len(windex) - 1) ELSE windex)
                     ELSE disk)
         /\ windex' = <<>>
         /\ current' = FALSE
         /\ rw' = FALSE
         /\ r' = FALSE
         /\ files' = [h \in Handles |->
                IF files[h].st = "none" THEN files[h]
                ELSE [files[h] EXCEPT !.stale = TRUE]]

\* ensureClosed: the writer is closed (its index written), then the container
ensureClosed ==
    IF ~r
    THEN UNCHANGED <<disk, r, rw, windex, current, files>>
    ELSE /\ disk' = (IF rw THEN indexWriteTo(disk, Flushed(windex, current)) ELSE disk)
         /\ windex' = <<>>
         /\ current' = FALSE
         /\ rw' = FALSE
         /\ r' = FALSE
         /\ files' = [h \in Handles |->
                IF files[h].st = "none" THEN files[h]
                ELSE [files[h] EXCEPT !.stale = TRUE]]

Sync ==
    /\ ensureClosed
    /\ UNCHANGED <<options, fileImpl, origin, exists, fdata, fileWriteModeOpen>>

\* ------------------------------------------------------------- wrappers
\* readOnly.TempFile fails; temp.TempFile allocates in the mounted tmpFs, which
\* is no part of the archive
TempFileErr == IF options.ReadOnly THEN "ErrReadOnlyFilesystem" ELSE "nil"

TempFile ==
    /\ UNCHANGED <<options, fileImpl, origin, exists, fdata, disk, r, rw, windex, current,
                   fileWriteModeOpen, files>>

\* NewWithOptions over the same container, once the previous instance is synced
\* and its handles are closed
NewWithOptions ==
    /\ ~r
    /\ \A h \in Handles : files[h].st # "open"
    /\ fileWriteModeOpen' = FALSE
    /\ UNCHANGED <<options, fileImpl, origin, exists, fdata, disk, r, rw, windex, current, files>>

\* ------------------------------------------------------------- file handle
\* part_001 checks f.isClosed first in Read, ReadAt, Seek and Write (lines 144,
\* 156, 168, 180); file.go (lines 40-86) has no such check
closedCheck(f) == fileImpl = "part_001" /\ f.st = "closed"

\* variant of readErr without the direction check
readErr_anyKind(f) == IF closedCheck(f) THEN "ErrClosed" ELSE "nil"

readErr(f) ==
    IF closedCheck(f) THEN "ErrClosed"
    ELSE IF f.kind # "r" THEN "ErrWriteOnlyFile"
    ELSE "nil"

seekErr(f) ==
    IF closedCheck(f) THEN "ErrClosed"
    ELSE IF f.kind # "r" THEN "ErrNonSeekableFile"
    ELSE "nil"

writeErr(f) ==
    IF closedCheck(f) THEN "ErrClosed"
    ELSE IF f.kind # "w" THEN "ErrReadOnlyFile"
    ELSE "nil"

closeErr(f) == IF f.st = "closed" THEN "ErrClosed" ELSE "nil"

\* the bytes of the container a section reader yields
Section(start, from, k) == SubSeq(fdata, start + from + 1, start + from + k)

\* io.SectionReader.ReadAt over the container, which Sync has closed for a
\* stale handle
sectionRead(f, n, off, short) ==
    LET k == Min(n, f.size - off)
    IN  IF off >= f.size THEN [err |-> "EOF", n |-> 0, data |-> <<>>]
        ELSE IF f.stale THEN [err |-> "ErrUnderlying", n |-> 0, data |-> <<>>]
        ELSE [err |-> IF k < n THEN short ELSE "nil", n |-> k,
              data |-> Section(f.start, off, k)]

\* what Read returns
ReadResult(f, n) ==
    IF readErr(f) # "nil" THEN [err |-> readErr(f), n |-> 0, data |-> <<>>]
    ELSE sectionRead(f, n, f.pos, "nil")

\* what ReadAt returns
ReadAtResult(f, n, off) ==
    IF readErr(f) # "nil" THEN [err |-> readErr(f), n |-> 0, data |-> <<>>]
    ELSE sectionRead(f, n, off, "EOF")

Read(h, n) ==
    LET f == files[h]
        res == ReadResult(f, n)
    IN  /\ f.st # "none"
        /\ files' = [files EXCEPT ![h].pos = f.pos + res.n]
        /\ UNCHANGED <<options, fileImpl, origin, exists, fdata, disk, r, rw, windex, current,
                       fileWriteModeOpen>>

ReadAt(h, n, off) ==
    LET f == files[h]
    IN  /\ f.st # "none"
        /\ UNCHANGED <<options, fileImpl, origin, exists, fdata, disk, r, rw, windex, current,
                       fileWriteModeOpen, files>>

\* io.SectionReader.Seek: whence 0 start, 1 current, 2 end
SeekResult(f, offset, whence) ==
    LET to == CASE whence = 0 -> offset
                [] whence = 1 -> f.pos + offset
                [] OTHER -> f.size + offset
    IN  IF seekErr(f) # "nil" THEN [err |-> seekErr(f), pos |-> f.pos, n |-> 0]
        ELSE IF to < 0 THEN [err |-> "ErrOffset", pos |-> f.pos, n |-> 0]
        ELSE [err |-> "nil", pos |-> to, n |-> to]

Seek(h, offset, whence) ==
    LET f == files[h]
        res == SeekResult(f, offset, whence)
    IN  /\ f.st # "none"
        /\ res.pos <= MaxData + 1
        /\ files' = [files EXCEPT ![h].pos = res.pos]
        /\ UNCHANGED <<options, fileImpl, origin, exists, fdata, disk, r, rw, windex, current,
                       fileWriteModeOpen>>

\* what Write returns. siva writer.Write: a writer with no entry in progress
\* (a closed one has none) takes nothing and returns the codec's error
WriteResult(f, p) ==
    IF writeErr(f) # "nil" THEN [err |-> writeErr(f), n |-> 0]
    ELSE IF f.stale \/ ~current THEN [err |-> "ErrWriter", n |-> 0]
    ELSE [err |-> "nil", n |-> Len(p)]

Write(h, p) ==
    LET f == files[h]
        res == WriteResult(f, p)
    IN  /\ f.st # "none"
        /\ Len(fdata) + res.n <= MaxData
        /\ fdata' = fdata \o SubSeq(p, 1, res.n)
        /\ UNCHANGED <<options, fileImpl, origin, exists, disk, r, rw, windex, current,
                       fileWriteModeOpen, files>>

\* closeFunc of createFile (filesystem.go:399-409)
closeFunc(f) ==
    IF ~rw
    THEN UNCHANGED <<fileWriteModeOpen, windex, current>>
    ELSE /\ fileWriteModeOpen' = (IF closeFuncClears(f.flag) THEN FALSE ELSE fileWriteModeOpen)
         /\ windex' = Flushed(windex, current)
         /\ current' = FALSE

Close(h) ==
    LET f == files[h]
        err == closeErr(f)
    IN  /\ f.st # "none"
        /\ IF err # "nil"
           THEN UNCHANGED <<fileWriteModeOpen, windex, current, files>>
           ELSE /\ files' = [files EXCEPT ![h].st = "closed"]
                /\ IF f.kind = "r"
                   THEN UNCHANGED <<fileWriteModeOpen, windex, current>>
                   ELSE closeFunc(f)
        /\ UNCHANGED <<options, fileImpl, origin, exists, fdata, disk, r, rw>>

\* the caller drops a closed handle
Release(h) ==
    /\ files[h].st = "closed"
    /\ files' = [files EXCEPT ![h] = NoFile]
    /\ UNCHANGED <<options, fileImpl, origin, exists, fdata, disk, r, rw, windex, current,
                   fileWriteModeOpen>>

\* ------------------------------------------------------------- Truncate
\* file.Truncate of part_001 (lines 215-263), statement by statement: f.Close()
\* with its error dropped; fs.Open(f.name); Read of size bytes into a buffer of
\* size bytes (the test err != err at line 226 never fires, and what Read does
\* not fill stays zero); fs.Create(f.name), Write(buffer), Close;
\* fs.OpenFile(f.name, f.flag), whose state is copied into f.
TruncateResult(f, size) ==
    LET \* line 216: f.Close()
        closes == f.st = "open" /\ f.kind = "w" /\ rw
        flag1 == IF closes /\ closeFuncClears(f.flag) THEN FALSE ELSE fileWriteModeOpen
        wi1 == IF closes THEN Flushed(windex, current) ELSE windex
        cur1 == IF closes THEN FALSE ELSE current
        closed == [f EXCEPT !.st = "closed"]
        \* line 218: fs.Open(f.name)
        index == ToSafePaths(Filter(IF options.ReadOnly THEN readerIndex ELSE disk \o wi1))
        i == FindPos(index, f.name)
        e == index[i]
        \* lines 223-224: the buffer, and what Read fills of it
        k == Min(size, e.Size)
        buffer == Section(e.Start, 0, k) \o [j \in 1..(size - k) |-> 0]
        \* lines 233-246: fs.Create(f.name), Write(buffer), Close
        wi2 == WriteHeader(wi1, cur1, f.name, FALSE)
        wi3 == [wi2 EXCEPT ![Len(wi2)].Size = Len(buffer)]
        data3 == fdata \o buffer
        \* line 247: fs.OpenFile(f.name, f.flag, 0666)
        creates == HasFlag(f.flag, O_CREATE)
        err7 == IF creates /\ ~HasFlag(f.flag, O_TRUNC) THEN "ErrNotSupported"
                ELSE IF creates THEN createFileErr(f.flag)
                ELSE IF openFileUnsupported(f.flag) THEN "ErrNotSupported"
                ELSE "nil"
        wi4 == Append(wi3, [Name |-> f.name, Start |-> Len(data3), Size |-> 0,
                            Deleted |-> FALSE, ModTime |-> Now(wi3)])
        left == [err |-> "nil", r |-> TRUE, rw |-> rwAfterOpen, exists |-> TRUE,
                 windex |-> wi1, current |-> cur1, fileWriteModeOpen |-> flag1,
                 fdata |-> fdata, file |-> closed]
        written == [left EXCEPT !.windex = wi3, !.current = FALSE,
                                !.fileWriteModeOpen = FALSE, !.fdata = data3]
    IN  IF ensureOpenFails
        THEN [left EXCEPT !.err = "ErrUnderlying", !.r = r, !.rw = rw, !.exists = exists]
        ELSE IF i = 0 THEN [left EXCEPT !.err = "ErrNotExist"]
        ELSE IF ~rwAfterOpen THEN [left EXCEPT !.err = "ErrReadOnlyFilesystem"]
        ELSE IF flag1 THEN [left EXCEPT !.err = "ErrFileWriteModeAlreadyOpen"]
        ELSE IF err7 # "nil" THEN [written EXCEPT !.err = err7]
        ELSE IF creates
        THEN [written EXCEPT !.windex = wi4, !.current = TRUE,
                             !.fileWriteModeOpen = deferredWriteModeOpen,
                             !.file = [newFile(f.name, f.flag) EXCEPT !.stale = FALSE]]
        ELSE [written EXCEPT
                !.file = [NoFile EXCEPT !.st = "open", !.kind = "r", !.name = f.name,
                                        !.flag = f.flag, !.start = Len(fdata),
                                        !.size = Len(buffer)]]

Truncate(h, size) ==
    LET f == files[h]
        res == TruncateResult(f, size)
    IN  /\ fileImpl = "part_001"
        /\ f.st # "none"
        /\ Len(disk) + Len(res.windex) - origin <= MaxTruncLog
        /\ Len(res.fdata) <= MaxTruncData
        /\ r' = res.r
        /\ rw' = res.rw
        /\ exists' = res.exists
        /\ windex' = res.windex
        /\ current' = res.current
        /\ fileWriteModeOpen' = res.fileWriteModeOpen
        /\ fdata' = res.fdata
        /\ files' = [files EXCEPT ![h] = res.file]
        /\ UNCHANGED <<options, fileImpl, origin, disk>>

\* ------------------------------------------------------------- observers
Call(op, err, h, name, flag, data) ==
    [op |-> op, err |-> err, h |-> h, name |-> name, flag |-> flag, data |-> data]

\* rt follows Create(P), Write*, Close [, Sync] and the reads after it; any
\* other call ends the sequence.
Monitor(rv) ==
    IF rv.op = "OpenFile" /\ rv.flag = CreateFlag /\ rv.err = "nil"
    THEN [stage |-> "writing", h |-> rv.h, name |-> rv.name, bytes |-> <<>>, rh |-> 0]
    ELSE IF rt.stage = "writing"
    THEN IF rv.op = "Write" /\ rv.h = rt.h /\ rv.err = "nil"
         THEN [rt EXCEPT !.bytes = @ \o rv.data]
         ELSE IF rv.op = "Close" /\ rv.h = rt.h /\ rv.err = "nil"
         THEN [rt EXCEPT !.stage = "closed"]
         ELSE IdleRt
    ELSE IF rt.stage \in {"closed", "synced"}
    THEN IF rv.op = "Sync" /\ rt.stage = "closed"
         THEN [rt EXCEPT !.stage = "synced", !.rh = 0]
         ELSE IF rv.op = "OpenFile" /\ rv.flag = O_RDONLY
         THEN IF rv.err = "nil" /\ rv.name = rt.name THEN [rt EXCEPT !.rh = rv.h] ELSE rt
         ELSE IF rv.op \in {"Stat", "ReadDir", "ReadAt"}
         THEN rt
         ELSE IF rv.op = "New" /\ rt.stage = "synced"
         THEN rt
         ELSE IdleRt
    ELSE IdleRt

Observe(rv) ==
    /\ rt' = Monitor(rv)
    /\ removed' =
          IF rv.op = "Remove" /\ rv.err = "nil" THEN removed \cup {rv.name}
          ELSE IF rv.op = "OpenFile" /\ HasFlag(rv.flag, O_CREATE) /\ rv.err = "nil"
          THEN removed \ {rv.name}
          ELSE removed
    /\ UNCHANGED calls

Plain(op) == Call(op, "nil", 0, <<>>, {}, <<>>)

\* ------------------------------------------------------------- Next
\* The buffers Write is called with: empty, or the one byte that tells the
\* position it lands on
WriteBufs == {<<>>, <<Len(fdata) + 1>>}

DoOpenFile == \E path \in CallPaths, flag \in CallFlags :
    /\ HasFlag(flag, O_CREATE) => path \in CreatePaths
    /\ flag \in UnsupportedFlags => path = <<"a">>
    /\ OpenFile(path, flag)
    /\ Observe(Call("OpenFile", OpenFileErr(path, flag),
                    IF HasFree THEN FreeSlot ELSE 0, normalizePath(path), flag, <<>>))
DoStat == \E path \in ProbePaths : Stat(path) /\ Observe(Plain("Stat"))
DoReadDir == \E path \in ProbePaths : ReadDir(path) /\ Observe(Plain("ReadDir"))
DoMkdirAll == \E path \in ProbePaths : MkdirAll(path) /\ Observe(Plain("MkdirAll"))
DoRemove == \E path \in CallPaths :
    /\ Remove(path)
    /\ Observe(Call("Remove", RemoveErr(path), 0, normalizePath(path), {}, <<>>))
DoRename == \E from \in {<<"a">>}, to \in {<<"b">>} : Rename(from, to) /\ Observe(Plain("Rename"))
DoSync == Sync /\ Observe(Plain("Sync"))
DoTempFile == TempFile /\ Observe(Plain("TempFile"))
DoNew == NewWithOptions /\ Observe(Plain("New"))
DoRead == \E h \in Handles, n \in {0, MaxData} : Read(h, n) /\ Observe(Plain("Read"))
DoReadAt == \E h \in Handles, n \in {MaxData}, off \in {0} :
    ReadAt(h, n, off) /\ Observe(Plain("ReadAt"))
DoSeek == \E h \in Handles, offset \in {-1, 0}, whence \in {0} :
    Seek(h, offset, whence) /\ Observe(Plain("Seek"))
DoWrite == \E h \in Handles, p \in WriteBufs :
    /\ Write(h, p)
    /\ Observe(Call("Write", WriteResult(files[h], p).err, h, <<>>, {},
                    SubSeq(p, 1, WriteResult(files[h], p).n)))
DoClose == \E h \in Handles :
    Close(h) /\ Observe(Call("Close", closeErr(files[h]), h, <<>>, {}, <<>>))
DoRelease == \E h \in Handles : Release(h) /\ Observe(Plain("Release"))

Next ==
    \/ DoOpenFile
    \/ DoStat
    \/ DoReadDir
    \/ DoMkdirAll
    \/ DoRemove
    \/ DoRename
    \/ DoSync
    \/ DoTempFile
    \/ DoNew
    \/ DoRead
    \/ DoReadAt
    \/ DoSeek
    \/ DoWrite
    \/ DoClose
    \/ DoRelease

Spec == Init /\ [][Next]_vars

SpecFileGo == InitFileGo /\ [][Next]_vars

\* ------------------------------------------------------------- SpecArchive
\* The entries a container written by other tools can hold
ArchiveEntries ==
    [Name : ArchiveNames, Start : {0}, Size : {0}, Deleted : BOOLEAN,
     ModTime : 1..MaxTime]

\* Remove writes a tombstone only behind a live entry of the name
TombstonesFollowLive(log) ==
    \A k \in 1..Len(log) :
       log[k].Deleted =>
          \E j \in 1..(k - 1) :
             /\ log[j].Name = log[k].Name /\ ~log[j].Deleted
             /\ \A m \in (j + 1)..(k - 1) : log[m].Name # log[k].Name

ArchiveLogs ==
    { log \in UNION { [1..n -> ArchiveEntries] : n \in 0..MaxEntries } :
         TombstonesFollowLive(log) }

\* a filesystem over a container of entries without content
InitArchive ==
    /\ options \in [ReadOnly : BOOLEAN, Offset : {0}]
    /\ fileImpl = "part_001"
    /\ exists = TRUE
    /\ disk \in ArchiveLogs
    /\ origin = Len(disk)
    /\ fdata = <<>>
    /\ r = FALSE
    /\ rw = FALSE
    /\ windex = <<>>
    /\ current = FALSE
    /\ fileWriteModeOpen = FALSE
    /\ files = [h \in Handles |-> NoFile]
    /\ rt = IdleRt
    /\ removed = {}
    /\ calls = [c \in Callers |-> NoCall]

\* Remove of any path of such a container
DoRemoveArchive == \E path \in ArchivePaths :
    /\ Remove(path)
    /\ Observe(Call("Remove", RemoveErr(path), 0, normalizePath(path), {}, <<>>))

NextArchive ==
    \/ DoStat
    \/ DoReadDir
    \/ DoMkdirAll
    \/ DoRemoveArchive
    \/ DoSync

SpecArchive == InitArchive /\ [][NextArchive]_vars

\* ------------------------------------------------------------- SpecSnapshot
\* NewFilesystemWithOptions (filesystem.go:112): the error it returns for the
\* options o
NewFilesystemWithOptionsErr(o) ==
    IF ~o.ReadOnly /\ o.Offset # 0 THEN "ErrOffsetReadWrite" ELSE "nil"

\* The constructors, and the options each hands to the sivaFS it builds for a
\* container of n entries: NewWithOptions (lines 86-92) stores what it is
\* given, NewFilesystemWithOptions refuses an offset without ReadOnly, and
\* NewFilesystemReadOnly (lines 141-150) sets ReadOnly itself.
Constructors == { "NewWithOptions", "NewFilesystemWithOptions", "NewFilesystemReadOnly" }

ConstructedOptions(ctor, n) ==
    LET given == [ReadOnly : IF ctor = "NewFilesystemReadOnly" THEN {TRUE} ELSE BOOLEAN,
                  Offset : 0..n]
    IN  IF ctor = "NewWithOptions" THEN given
        ELSE { o \in given : NewFilesystemWithOptionsErr(o) = "nil" }

\* The containers a snapshot is taken of: those of InitContainers that exist,
\* and one in which "a" = <<1>> has been replaced with "a" = <<2>>
SnapshotContainers ==
    { c \in InitContainers : c.exists } \cup
    { [exists |-> TRUE,
       disk |-> << Entry(<<"a">>, 0, 1), [Entry(<<"a">>, 1, 1) EXCEPT !.ModTime = 2] >>,
       fdata |-> <<1, 2>>] }

InitSnapshot ==
    /\ fileImpl = "part_001"
    /\ \E c \in SnapshotContainers :
          /\ exists = c.exists
          /\ disk = c.disk
          /\ origin = Len(c.disk)
          /\ fdata = c.fdata
          /\ \E ctor \in Constructors : options \in ConstructedOptions(ctor, Len(c.disk))
    /\ r = FALSE
    /\ rw = FALSE
    /\ windex = <<>>
    /\ current = FALSE
    /\ fileWriteModeOpen = FALSE
    /\ files = [h \in Handles |-> NoFile]
    /\ rt = IdleRt
    /\ removed = {}
    /\ calls = [c \in Callers |-> NoCall]

\* Another filesystem instance over the same container creates the file name
\* with one byte, or removes it, and syncs: its index block lands behind the
\* blocks the container holds. The instance observed here is read-only.
WriterAppends(name, deleted) ==
    /\ options.ReadOnly
    /\ exists
    /\ Len(disk) - origin < MaxLog
    /\ disk' = Append(disk, [Name |-> name, Start |-> Len(fdata),
                             Size |-> IF deleted THEN 0 ELSE 1,
                             Deleted |-> deleted, ModTime |-> Len(disk) + 1])
    /\ fdata' = IF deleted THEN fdata ELSE Append(fdata, Len(fdata) + 1)
    /\ UNCHANGED <<options, fileImpl, origin, exists, r, rw, windex, current,
                   fileWriteModeOpen, files>>

DoWriterAppends == \E name \in { <<"a">>, <<"a", "/", "b">> }, deleted \in BOOLEAN :
    WriterAppends(name, deleted) /\ Observe(Plain("WriterAppends"))

NextSnapshot ==
    \/ DoOpenFile
    \/ DoStat
    \/ DoReadDir
    \/ DoSync
    \/ DoRead
    \/ DoClose
    \/ DoWriterAppends

SpecSnapshot == InitSnapshot /\ [][NextSnapshot]_vars

\* ------------------------------------------------------------- SpecRace
\* Two callers run OpenFile on one instance with no lock between them: the
\* statements of OpenFile and createFile that read or write the shared state
\* are steps of their own, and the steps of the two calls interleave.
Returned(c, err) == [calls EXCEPT ![c].pc = "done", ![c].err = err]

\* filesystem.go:163-174: ensureOpen, the read-only test, normalizePath and the
\* test of O_CREATE without O_TRUNC
OpenFileBegin(c, path, flag) ==
    /\ calls[c].pc = "idle"
    /\ IF ensureOpenFails THEN UNCHANGED <<exists, r, rw>> ELSE ensureOpen
    /\ calls' =
          IF ensureOpenFails THEN Returned(c, "ErrUnderlying")
          ELSE IF readOnlyRejects(flag) THEN Returned(c, "ErrReadOnlyFilesystem")
          ELSE IF HasFlag(flag, O_CREATE) /\ ~HasFlag(flag, O_TRUNC)
          THEN Returned(c, "ErrNotSupported")
          ELSE [calls EXCEPT ![c].pc = "check", ![c].name = normalizePath(path),
                             ![c].flag = flag]
    /\ UNCHANGED <<options, fileImpl, origin, fdata, disk, windex, current,
                   fileWriteModeOpen, files, rt, removed>>

\* filesystem.go:177: the read of fs.fileWriteModeOpen
OpenFileCheck(c) ==
    /\ calls[c].pc = "check"
    /\ calls' = IF writeModeBusy THEN Returned(c, "ErrFileWriteModeAlreadyOpen")
                ELSE [calls EXCEPT ![c].pc = "WriteHeader"]
    /\ UNCHANGED <<options, fileImpl, origin, exists, fdata, disk, r, rw, windex, current,
                   fileWriteModeOpen, files, rt, removed>>

\* filesystem.go:385-396: the flag test of createFile and fs.rw.WriteHeader
createFileWriteHeader(c) ==
    /\ calls[c].pc = "WriteHeader"
    /\ IF createFileUnsupported(calls[c].flag)
       THEN /\ calls' = Returned(c, "ErrNotSupported")
            /\ UNCHANGED <<windex, current>>
       ELSE /\ Len(Log) - origin < MaxLog
            /\ windex' = WriteHeader(windex, current, calls[c].name, FALSE)
            /\ current' = TRUE
            /\ calls' = [calls EXCEPT ![c].pc = "return"]
    /\ UNCHANGED <<options, fileImpl, origin, exists, fdata, disk, r, rw,
                   fileWriteModeOpen, files, rt, removed>>

\* filesystem.go:411-412: newFile, and the deferred fs.fileWriteModeOpen = true
createFileReturn(c) ==
    /\ calls[c].pc = "return"
    /\ HasFree
    /\ files' = [files EXCEPT ![FreeSlot] = newFile(calls[c].name, calls[c].flag)]
    /\ fileWriteModeOpen' = (IF deferredWriteModeOpen THEN TRUE ELSE fileWriteModeOpen)
    /\ calls' = [Returned(c, "nil") EXCEPT ![c].h = FreeSlot]
    /\ UNCHANGED <<options, fileImpl, origin, exists, fdata, disk, r, rw, windex, current,
                   rt, removed>>

DoOpenFileBegin == \E c \in Callers, path \in CreatePaths : OpenFileBegin(c, path, CreateFlag)
DoOpenFileCheck == \E c \in Callers : OpenFileCheck(c)
DoCreateFileWriteHeader == \E c \in Callers : createFileWriteHeader(c)
DoCreateFileReturn == \E c \in Callers : createFileReturn(c)

NextRace ==
    \/ DoOpenFileBegin
    \/ DoOpenFileCheck
    \/ DoCreateFileWriteHeader
    \/ DoCreateFileReturn
    \/ DoWrite
    \/ DoClose

SpecRace == Init /\ [][NextRace]_vars

\* ------------------------------------------------------------- SpecTruncate
\* The sizes Truncate is called with
TruncateSizes == 0..MaxData

DoTruncate == \E h \in Handles, size \in TruncateSizes :
    /\ Truncate(h, size)
    /\ Observe(Call("Truncate", TruncateResult(files[h], size).err, h, <<>>, {}, <<>>))

\* Open and Create of "a"
DoOpenOrCreate == \E flag \in { O_RDONLY, CreateFlag } :
    /\ OpenFile(<<"a">>, flag)
    /\ Observe(Call("OpenFile", OpenFileErr(<<"a">>, flag),
                    IF HasFree THEN FreeSlot ELSE 0, <<"a">>, flag, <<>>))

NextTruncate ==
    \/ DoOpenOrCreate
    \/ DoWrite
    \/ DoRead
    \/ DoClose
    \/ DoSync
    \/ DoRemove
    \/ DoMkdirAll
    \/ DoRename
    \/ DoTruncate

SpecTruncate == Init /\ [][NextTruncate]_vars

\* ------------------------------------------------------------- legacy symlinks
\* The earlier variant of the filesystem (src/unnamed/part_000): every session
\* has a writer, an entry carries a mode, and a symlink is an entry whose
\* content is the target string.

\* the most entries Symlink appends in one run
MaxLinks == 3

\* The containers the legacy variant starts from: empty, or holding the
\* regular file "a" = <<1>> or "a/b" = <<1>>
LegacyContainers ==
    { [disk |-> <<>>, fdata |-> <<>>],
      [disk |-> <<[Name |-> <<"a">>, Start |-> 0, Size |-> 1, Deleted |-> FALSE,
                   ModTime |-> 1, Mode |-> "file"]>>, fdata |-> <<1>>],
      [disk |-> <<[Name |-> <<"a", "/", "b">>, Start |-> 0, Size |-> 1,
                   Deleted |-> FALSE, ModTime |-> 1, Mode |-> "file"]>>,
       fdata |-> <<1>>] }

\* The link paths Symlink and Readlink are called with: "a", "b", "/b"
LinkNames == { <<"a">>, <<"b">>, <<"/", "b">> }

\* The targets Symlink is called with: "a", "b", "/a", "a/b", "c"
LinkTargets == { <<"a">>, <<"b">>, <<"/", "a">>, <<"a", "/", "b">>, <<"c">> }

\* The paths Stat, Open and ReadDir are called with: "a", "b", "a/b", "c", ""
LegacyPaths == { <<"a">>, <<"b">>, <<"a", "/", "b">>, <<"c">>, <<>> }

\* a call of the legacy variant that is not running
NoCallV2 ==
    [pc |-> "idle", op |-> "none", name |-> <<>>, cur |-> <<>>, target |-> <<>>,
     err |-> "nil", res |-> <<>>]

\* variant of isSymlink that takes no entry for a link
isSymlink_never(e) == FALSE

\* part_000:519
isSymlink(e) == e.Mode = "symlink"

\* part_000:418 getIndex: Filter alone
getIndexV2 == Filter(Log)

\* part_000:291 readLinkFromEntry: the content of the entry, read to its end
readLinkFromEntry(e) == Section(e.Start, 0, e.Size)

\* filepath.IsAbs
IsAbs(p) == p # <<>> /\ p[1] = "/"

\* filepath.Dir: the path up to its last separator, cleaned; "." when it has none
filepathDir(p) ==
    LET slashes == { i \in 1..Len(p) : p[i] = "/" }
    IN  IF slashes = {} THEN <<".">>
        ELSE Clean(SubSeq(p, 1, CHOOSE i \in slashes : \A j \in slashes : j <= i))

\* part_000:506 normalizePath: the path made relative to "/"
normalizePathV2(p) == removeLeadingSlash(FilepathJoin(<<Separator>>, p))

\* part_000:168-172: the path a link of this name with this content stands for
linkPathSteps(name, target) ==
    normalizePathV2(IF IsAbs(target) THEN target
                    ELSE FilepathJoin(filepathDir(name), target))

\* linkPathSteps over the links of the model, computed once
linkPathTable ==
    [n \in { normalizePathV2(l) : l \in LinkNames }, t \in LinkTargets |->
        linkPathSteps(n, t)]

\* part_000:154 resolveIfLink of an entry that is there
resolveIfLink(e) ==
    IF ~isSymlink(e) THEN [target |-> e.Name, isLink |-> FALSE]
    ELSE LET target == readLinkFromEntry(e)
         IN  [target |-> IF <<e.Name, target>> \in DOMAIN linkPathTable
                         THEN linkPathTable[e.Name, target]
                         ELSE linkPathSteps(e.Name, target),
              isLink |-> TRUE]

\* the element of a one-element set: a value computed once and bound
Only(S) == CHOOSE x \in S : TRUE

\* part_000:459 getDir: the entries one level under dir make it a directory
getDirV2(index, d) ==
    Only({ IF Len(entries) = 0 THEN <<>>
           ELSE Only({ <<newDirFileInfo(name, oldDir(entries, 1))>> :
                          name \in {Clean(addTrailingSlash(d))} }) :
           entries \in {SelectSeq(index,
                           LAMBDA e : GlobStar(e.Name, addTrailingSlash(d)))} })

\* part_000:481 listDirs: the directories of the entries two levels under dir,
\* kept in a map, so in no order
listDirsV2(index, d) ==
    LET dir == addTrailingSlash(d)
        under == SelectSeq(index, LAMBDA e :
                     /\ HasPrefix(e.Name, dir)
                     /\ Cardinality({ j \in (Len(dir) + 1)..Len(e.Name) :
                                         e.Name[j] = "/" }) = 1)
    IN  UNION { { newDirFileInfo(name,
                      oldDir(SelectSeq(entries, LAMBDA e : filepathDir(e.Name) = name), 1)) :
                  name \in { filepathDir(entries[k].Name) : k \in 1..Len(entries) } } :
                entries \in {under} }

\* fileinfo.go changeFileInfoName: the info under another name
changeFileInfoName(fi, p) == [fi EXCEPT !.name = Base(p)]

\* part_000:97-114: Stat of a path whose entry is no link
StatLeaf(index, p) ==
    LET i == FindPos(index, p)
    IN  IF i = 0
        THEN IF getDirV2(index, p) = <<>>
             THEN [err |-> "os.ErrNotExist", res |-> <<>>]
             ELSE [err |-> "nil", res |-> getDirV2(index, p)]
        ELSE [err |-> "nil", res |-> <<newFileInfo(index[i])>>]

\* part_000:400-415: openFile of a path whose entry is no link; the handle is
\* named after the path it was reached at
openFileLeaf(index, p) ==
    LET i == FindPos(index, p)
    IN  IF i = 0 THEN [err |-> "os.ErrNotExist", res |-> <<>>]
        ELSE [err |-> "nil",
              res |-> <<[name |-> p, start |-> index[i].Start, size |-> index[i].Size]>>]

\* part_000:141-151: ReadDir of a path whose entry is no link
ReadDirLeaf(index, p) ==
    [err |-> "nil",
     res |-> <<[dirs |-> listDirsV2(index, p), files |-> listFiles(index, p)]>>]

\* part_000:257 Symlink behind its Stat: os.ErrExist when Stat found something,
\* its error when that is not os.ErrNotExist, else billy.WriteFile
SymlinkErr(statErr) ==
    IF statErr = "nil" THEN "os.ErrExist"
    ELSE IF statErr # "os.ErrNotExist" THEN statErr
    ELSE IF fileWriteModeOpen THEN "ErrFileWriteModeAlreadyOpen"
    ELSE "nil"

\* part_000:270 Readlink
ReadlinkResult(link) ==
    LET index == getIndexV2
        i == FindPos(index, link)
    IN  IF i = 0 THEN [err |-> "os.ErrNotExist", res |-> <<>>]
        ELSE IF ~isSymlink(index[i]) THEN [err |-> "not a symlink", res |-> <<>>]
        ELSE [err |-> "nil", res |-> <<readLinkFromEntry(index[i])>>]

\* The first lines of Stat, ReadDir, OpenFile and Symlink: the path is
\* normalized and the session opened; one call runs at a time
BeginCall(c, op, path, target) ==
    /\ \A d \in Callers : calls[d].pc = "idle"
    /\ ensureOpen
    /\ calls' = [calls EXCEPT ![c] =
          [NoCallV2 EXCEPT !.pc = "resolve", !.op = op, !.name = normalizePathV2(path),
                           !.cur = normalizePathV2(path), !.target = target]]
    /\ UNCHANGED <<options, fileImpl, origin, fdata, disk, windex, current,
                   fileWriteModeOpen, files>>

\* billy.WriteFile(sfs, link, []byte(target), 0777|os.ModeSymlink): createFile
\* writes the header with the mode, Write the target, Close flushes
WriteLink(link, target) ==
    /\ windex' = Append(Flushed(windex, current),
          [Name |-> link, Start |-> Len(fdata), Size |-> Len(target),
           Deleted |-> FALSE, ModTime |-> Now(windex), Mode |-> "symlink"])
    /\ fdata' = fdata \o target
    /\ current' = FALSE
    /\ fileWriteModeOpen' = FALSE

\* One level of Stat, ReadDir or openFile on the path the call has reached: a
\* link sends the call to its target, anything else ends it. The index, the
\* entry and the result are each computed once and bound.
Resolve(c) ==
    \E index \in {getIndexV2} : \E i \in {FindPos(index, calls[c].cur)} :
    \E leaf \in {IF i # 0 /\ isSymlink(index[i]) THEN resolveIfLink(index[i])
                 ELSE IF calls[c].op = "Open" THEN openFileLeaf(index, calls[c].cur)
                 ELSE IF calls[c].op = "ReadDir" THEN ReadDirLeaf(index, calls[c].cur)
                 ELSE StatLeaf(index, calls[c].cur)} :
        /\ calls[c].pc = "resolve"
        /\ IF i # 0 /\ isSymlink(index[i])
           THEN /\ calls' = [calls EXCEPT ![c].cur = leaf.target]
                /\ UNCHANGED <<windex, fdata, current, fileWriteModeOpen>>
           ELSE IF calls[c].op = "Symlink"
           THEN /\ calls' = [calls EXCEPT ![c].pc = "done",
                                          ![c].err = SymlinkErr(leaf.err)]
                /\ IF SymlinkErr(leaf.err) = "nil"
                   THEN /\ Len(Log) - origin < MaxLinks
                        /\ WriteLink(calls[c].name, calls[c].target)
                   ELSE UNCHANGED <<windex, fdata, current, fileWriteModeOpen>>
           ELSE /\ calls' = [calls EXCEPT ![c].pc = "done", ![c].err = leaf.err,
                      ![c].res = IF /\ calls[c].op = "Stat" /\ leaf.err = "nil"
                                    /\ calls[c].cur # calls[c].name
                                 THEN <<changeFileInfoName(leaf.res[1], calls[c].name)>>
                                 ELSE leaf.res]
                /\ UNCHANGED <<windex, fdata, current, fileWriteModeOpen>>
        /\ UNCHANGED <<options, fileImpl, origin, exists, disk, r, rw, files>>

\* Readlink, which follows no link
Readlink(c, link) ==
    /\ \A d \in Callers : calls[d].pc = "idle"
    /\ ensureOpen
    /\ calls' = [calls EXCEPT ![c] =
          [NoCallV2 EXCEPT !.pc = "done", !.op = "Readlink", !.name = link,
                           !.cur = link, !.err = ReadlinkResult(link).err,
                           !.res = ReadlinkResult(link).res]]
    /\ UNCHANGED <<options, fileImpl, origin, fdata, disk, windex, current,
                   fileWriteModeOpen, files>>

\* the caller takes the result
Return(c) ==
    /\ calls[c].pc = "done"
    /\ calls' = [calls EXCEPT ![c] = NoCallV2]
    /\ UNCHANGED <<options, fileImpl, origin, exists, fdata, disk, r, rw, windex,
                   current, fileWriteModeOpen, files>>

InitLegacy ==
    /\ options = [ReadOnly |-> FALSE, Offset |-> 0]
    /\ fileImpl = "part_000"
    /\ \E c \in LegacyContainers :
          /\ disk = c.disk
          /\ origin = Len(c.disk)
          /\ fdata = c.fdata
    /\ exists = TRUE
    /\ r = FALSE
    /\ rw = FALSE
    /\ windex = <<>>
    /\ current = FALSE
    /\ fileWriteModeOpen = FALSE
    /\ files = [h \in Handles |-> NoFile]
    /\ rt = IdleRt
    /\ removed = {}
    /\ calls = [c \in Callers |-> NoCallV2]

\* the observers of the other variants stand still
Unobserved == UNCHANGED <<rt, removed>>

DoStatV2 == \E path \in LegacyPaths :
    BeginCall(1, "Stat", path, <<>>) /\ Unobserved

DoOpenV2 == \E path \in LegacyPaths :
    BeginCall(1, "Open", path, <<>>) /\ Unobserved

DoReadDirV2 == \E path \in LegacyPaths :
    BeginCall(1, "ReadDir", path, <<>>) /\ Unobserved

DoSymlink == \E target \in LinkTargets, link \in LinkNames :
    BeginCall(1, "Symlink", link, target) /\ Unobserved

DoReadlink == \E link \in LinkNames : Readlink(1, link) /\ Unobserved

DoResolve == Resolve(1) /\ Unobserved

DoReturn == Return(1) /\ Unobserved

NextLegacy ==
    \/ DoStatV2
    \/ DoOpenV2
    \/ DoReadDirV2
    \/ DoSymlink
    \/ DoReadlink
    \/ DoResolve
    \/ DoReturn

SpecLegacy == InitLegacy /\ [][NextLegacy]_vars

\* A call that is running takes its next level: the recursion of Stat, ReadDir
\* and openFile goes on as long as there is a link to follow
SpecLegacyFair == SpecLegacy /\ WF_vars(DoResolve)

\* ============================================================= properties
\* the write handles that are open
OpenWriters == { h \in Handles : files[h].st = "open" /\ files[h].kind = "w" }

\* the read handles that are open
OpenReaders == { h \in Handles : files[h].st = "open" /\ files[h].kind = "r" }

\* the flag words that reach the write-session check: O_CREATE with O_TRUNC
CreateModeFlags == { flag \in Flags : {"O_CREATE", "O_TRUNC"} \subseteq flag }

\* the archive as the container and the writer hold it
Archive == <<disk, windex, fdata>>

\* C1: at most one write handle is open at a time; while a created write
\* handle is unclosed, Create and every create-mode OpenFile (O_CREATE with
\* O_TRUNC) fail with ErrFileWriteModeAlreadyOpen, and no such call appends an
\* entry header or hands out a handle.
C1_SingleWriteHandle ==
    /\ [](/\ Cardinality(OpenWriters) <= 1
          /\ OpenWriters # {} =>
                \A path \in Paths, flag \in CreateModeFlags :
                   OpenFileErr(path, flag) = "ErrFileWriteModeAlreadyOpen")
    /\ [][ (OpenWriters # {} /\ (Archive' # Archive \/ files' # files)) =>
              \A path \in Paths, flag \in CreateModeFlags : ~OpenFile(path, flag)
          ]_vars

\* C1 happens: a write handle is open, a second handle is held, and Create is
\* refused
C1_Witness ==
    /\ \E h \in OpenWriters : files[h].flag = CreateFlag
    /\ \E h \in Handles : h \notin OpenWriters /\ files[h].st # "none"
    /\ rw
    /\ OpenFileErr(<<"/", "a", "/", "b">>, CreateFlag) = "ErrFileWriteModeAlreadyOpen"


\* the directory part of a name: path.Dir without the cleaning
Dir(name) ==
    LET segs == Split(name)
    IN  Join(SubSeq(segs, 1, Len(segs) - 1))

\* Open, Stat and ReadDir of the parent all find the file named name
Visible(name) ==
    /\ OpenFileErr(name, O_RDONLY) = "nil"
    /\ StatResult(name).err = "nil"
    /\ ~StatResult(name).info.isDir
    /\ \E i \in DOMAIN ReadDirResult(Dir(name)).list :
          LET info == ReadDirResult(Dir(name)).list[i]
          IN  info.name = Base(name) /\ ~info.isDir

\* C2: closing the write handle of any successful create-mode OpenFile
\* (O_CREATE|O_TRUNC|O_WRONLY as well as O_CREATE|O_TRUNC alone) clears the
\* write-session state and flushes the entry: once Close has returned, the next
\* Create is accepted and the closed entry is visible to Open, Stat and ReadDir.
C2_CloseEndsWriteSession ==
    [][ \A h \in OpenWriters :
           Close(h) =>
              /\ ~fileWriteModeOpen'
              /\ \A path \in CreatePaths : OpenFileErr(path, CreateFlag)' = "nil"
              /\ Visible(files[h].name)'
      ]_vars

\* the results every call on the handle f returns
HandleErrs(f) ==
    { ReadResult(f, n).err : n \in 0..MaxData }
       \cup { ReadAtResult(f, n, off).err : n \in 0..MaxData, off \in 0..MaxData }
       \cup { SeekResult(f, offset, whence).err : offset \in -1..1, whence \in 0..2 }
       \cup { WriteResult(f, p).err : p \in {<<>>, <<1>>, <<1, 2>>} }
       \cup { closeErr(f) }

\* C3: once a handle is closed, every Read, ReadAt, Seek, Write and Close on
\* it fails with the already-closed error, on write handles as on read handles;
\* the closed check comes before the direction check.
C3_ClosedHandleFails ==
    \A h \in Handles :
       files[h].st = "closed" => HandleErrs(files[h]) = {"ErrClosed"}

\* C4: on an open write handle Read and ReadAt fail with ErrWriteOnlyFile and
\* Seek with ErrNonSeekableFile; on an open read handle Write fails with
\* ErrReadOnlyFile; no byte is transferred, and the failing call leaves the
\* handle, the archive and the write session as they were.
C4_WrongDirectionFails ==
    /\ [](/\ \A h \in OpenWriters :
                LET f == files[h]
                IN  /\ \A n \in 0..MaxData :
                          /\ ReadResult(f, n) =
                                [err |-> "ErrWriteOnlyFile", n |-> 0, data |-> <<>>]
                          /\ \A off \in 0..MaxData :
                                ReadAtResult(f, n, off) =
                                  [err |-> "ErrWriteOnlyFile", n |-> 0, data |-> <<>>]
                    /\ \A offset \in -1..1, whence \in 0..2 :
                          SeekResult(f, offset, whence) =
                            [err |-> "ErrNonSeekableFile", pos |-> f.pos, n |-> 0]
          /\ \A h \in OpenReaders :
                \A p \in {<<>>, <<1>>, <<1, 2>>} :
                   WriteResult(files[h], p) = [err |-> "ErrReadOnlyFile", n |-> 0])
    /\ [][ (files' # files \/ Archive' # Archive
               \/ fileWriteModeOpen' # fileWriteModeOpen \/ current' # current) =>
              /\ \A h \in OpenWriters :
                    /\ \A n \in 0..MaxData :
                          ~Read(h, n) /\ \A off \in 0..MaxData : ~ReadAt(h, n, off)
                    /\ \A offset \in -1..1, whence \in 0..2 : ~Seek(h, offset, whence)
              /\ \A h \in OpenReaders :
                    \A p \in {<<>>, <<1>>, <<1, 2>>} : ~Write(h, p)
          ]_vars

\* C4 happens: a write handle that takes bytes and a read handle over content
\* are open together, and each refuses the other direction
C4_Witness ==
    \E h \in OpenWriters, g \in OpenReaders :
       /\ WriteResult(files[h], <<1>>) = [err |-> "nil", n |-> 1]
       /\ ReadResult(files[g], 1).n = 1
       /\ ReadResult(files[h], 1).err = "ErrWriteOnlyFile"
       /\ WriteResult(files[g], <<1>>).err = "ErrReadOnlyFile"

\* the flag words of C5: O_RDWR in any combination, O_WRONLY without O_CREATE,
\* O_CREATE without O_TRUNC
NotSupportedFlags ==
    { flag \in Flags :
         \/ HasFlag(flag, O_RDWR)
         \/ HasFlag(flag, O_WRONLY) /\ ~HasFlag(flag, O_CREATE)
         \/ HasFlag(flag, O_CREATE) /\ ~HasFlag(flag, O_TRUNC) }

\* the write-session state
WriteSession == <<fileWriteModeOpen, current>>

\* C5 as stated: O_RDWR in any combination, O_WRONLY without O_CREATE,
\* O_CREATE without O_TRUNC, and Rename fail with ErrNotSupported whatever the
\* path, the read-only setting and the write session.
C5_AlwaysNotSupported ==
    /\ \A path \in Paths, flag \in NotSupportedFlags :
          OpenFileErr(path, flag) = "ErrNotSupported"
    /\ \A from \in Paths, to \in Paths : RenameErr(from, to) = "ErrNotSupported"

\* C5 amended: these OpenFile calls and Rename always fail, append nothing and
\* leave the write-session state alone; Rename fails with ErrNotSupported, and
\* so does OpenFile unless an earlier check refuses the call: a read-only
\* filesystem refuses the flag words carrying O_CREATE, O_TRUNC or O_WRONLY with
\* ErrReadOnlyFilesystem (with the underlying error if its container is
\* missing), and an open write session refuses O_CREATE|O_TRUNC|O_RDWR with
\* ErrFileWriteModeAlreadyOpen.
C5_NotSupportedAfterEarlierChecks ==
    /\ [](/\ \A path \in Paths, flag \in NotSupportedFlags :
                OpenFileErr(path, flag) =
                   IF options.ReadOnly /\ ~exists THEN "ErrUnderlying"
                   ELSE IF options.ReadOnly
                           /\ HasFlag(flag, O_CREATE \cup O_TRUNC \cup O_WRONLY)
                        THEN "ErrReadOnlyFilesystem"
                   ELSE IF fileWriteModeOpen /\ flag \in CreateModeFlags
                        THEN "ErrFileWriteModeAlreadyOpen"
                   ELSE "ErrNotSupported"
          /\ \A from \in Paths, to \in Paths :
                RenameErr(from, to) = "ErrNotSupported")
    /\ [][ (Archive' # Archive \/ files' # files \/ WriteSession' # WriteSession) =>
              /\ \A path \in Paths, flag \in NotSupportedFlags : ~OpenFile(path, flag)
              /\ \A from \in Paths, to \in Paths : ~Rename(from, to)
          ]_vars

\* C5 happens: a read-write session with the file "a" and an open write
\* session refuses O_RDWR on "a" as not supported and O_CREATE|O_TRUNC|O_RDWR
\* as a second writer
C5_Witness ==
    /\ r /\ rw /\ fileWriteModeOpen
    /\ StatResult(<<"a">>).err = "nil" /\ ~StatResult(<<"a">>).info.isDir
    /\ OpenFileErr(<<"a">>, O_RDWR) = "ErrNotSupported"
    /\ OpenFileErr(<<"a">>, O_CREATE \cup O_TRUNC \cup O_RDWR)
          = "ErrFileWriteModeAlreadyOpen"

\* C6: on a read-only filesystem whose container can be opened, every
\* OpenFile carrying O_CREATE, O_TRUNC or O_WRONLY, every MkdirAll and every
\* Remove fail with ErrReadOnlyFilesystem, and so does TempFile; no step
\* changes the archive, whose entries stay those the container started with.
C6_ReadOnlyFilesystem ==
    /\ [](options.ReadOnly =>
            /\ TempFileErr = "ErrReadOnlyFilesystem"
            /\ Len(Log) = origin
            /\ exists =>
                  \A path \in Paths :
                     /\ \A flag \in Flags :
                           HasFlag(flag, O_CREATE \cup O_TRUNC \cup O_WRONLY) =>
                              OpenFileErr(path, flag) = "ErrReadOnlyFilesystem"
                     /\ MkdirAllErr(path) = "ErrReadOnlyFilesystem"
                     /\ RemoveErr(path) = "ErrReadOnlyFilesystem")
    /\ [][options.ReadOnly => Archive' = Archive]_vars

\* C6 happens: a read-only session is open over a container with an entry, a
\* read handle has been handed out, and Create and Remove are refused
C6_Witness ==
    /\ options.ReadOnly /\ r /\ ~rw
    /\ disk # <<>>
    /\ OpenReaders # {}
    /\ OpenFileErr(<<"a">>, CreateFlag) = "ErrReadOnlyFilesystem"
    /\ RemoveErr(<<"/", "a", "/", "b">>) = "ErrReadOnlyFilesystem"

\* the entry of the log at i is the latest of its name
Latest(i) == \A j \in (i + 1)..Len(Log) : Log[j].Name # Log[i].Name

\* the names of the live files: the latest entry of the name is no tombstone
LiveNames == { Log[i].Name : i \in { k \in 1..Len(Log) : Latest(k) /\ ~Log[k].Deleted } }

\* name lies below the directory p; every name lies below the root
Below(p, name) == p = <<>> \/ HasPrefix(name, p \o <<"/">>)

\* where an entry lies in the container: its name, its place and its flag
Placed(e) == [Name |-> e.Name, Start |-> e.Start, Deleted |-> e.Deleted]

\* a successful Remove(path) leaves every entry of the log in place and puts a
\* tombstone of the name behind them
RemoveAppendsTombstone(path) ==
    /\ Len(Log') = Len(Log) + 1
    /\ \A i \in 1..Len(Log) : Placed(Log'[i]) = Placed(Log[i])
    /\ Log'[Len(Log')].Name = normalizePath(path)
    /\ Log'[Len(Log')].Deleted

\* C7 as stated: after Remove(P) has succeeded on a live file P and until P is
\* created again, Stat(P) and Open(P) fail with not-found, and the latest entry
\* of P in the archive log is a tombstone.
C7_RemovedIsNotFound ==
    \A p \in removed :
       /\ StatResult(p).err = "ErrNotExist"
       /\ OpenFileErr(p, O_RDONLY) = "ErrNotExist"
       /\ \E i \in 1..Len(Log) : Log[i].Name = p /\ Latest(i) /\ Log[i].Deleted

\* C7 amended: after Remove(P) has succeeded on a live file P and until P is
\* created again, Open(P) fails with not-found, and so does Stat(P) unless a
\* live entry lies below P, when Stat(P) succeeds on the synthesized directory; the
\* successful Remove leaves every entry of the log in place and appends a
\* tombstone of P, which stays the latest entry of P.
C7_RemovedUnlessDirectory ==
    /\ [](\A p \in removed :
            /\ OpenFileErr(p, O_RDONLY) = "ErrNotExist"
            /\ StatResult(p).err =
                  IF \E name \in LiveNames : Below(p, name) THEN "nil"
                  ELSE "ErrNotExist"
            /\ \E i \in 1..Len(Log) : Log[i].Name = p /\ Latest(i) /\ Log[i].Deleted)
    /\ [][ Len(Log') # Len(Log) =>
              \A path \in Paths :
                 (RemoveErr(path) = "nil" /\ Remove(path)) => RemoveAppendsTombstone(path)
          ]_vars

\* C7 happens: the file "a" held content and was removed; its entry and the
\* tombstone behind it are in the log, nothing lies below "a", and Stat finds
\* nothing
C7_Witness ==
    /\ <<"a">> \in removed
    /\ \E i \in 1..Len(Log), j \in 1..Len(Log) :
          /\ i < j
          /\ Log[i].Name = <<"a">> /\ ~Log[i].Deleted /\ Log[i].Size > 0
          /\ Log[j].Name = <<"a">> /\ Log[j].Deleted
    /\ StatResult(<<"a">>).err = "ErrNotExist"

\* C8: on a read-write filesystem Remove(P) fails with ENOTEMPTY when no live
\* file is named P and a live entry lies below P, and with os.ErrNotExist when
\* neither a live file nor a live entry below P exists; a failing Remove
\* appends nothing to the archive.
C8_RemoveErrors ==
    /\ [](~options.ReadOnly =>
            \A path \in Paths :
               LET p == normalizePath(path)
                   dir == \E name \in LiveNames : Below(p, name)
               IN  /\ (p \notin LiveNames /\ dir) => RemoveErr(path) = "ENOTEMPTY"
                   /\ (p \notin LiveNames /\ ~dir) => RemoveErr(path) = "ErrNotExist")
    /\ [][ Archive' # Archive =>
              \A path \in Paths : RemoveErr(path) # "nil" => ~Remove(path) ]_vars

\* C8 happens: in an open read-write session "a" is a directory only and
\* nothing is at "b"
C8_Witness ==
    /\ r /\ rw
    /\ <<"a">> \notin LiveNames /\ <<"a", "/", "b">> \in LiveNames
    /\ RemoveErr(<<"a">>) = "ENOTEMPTY"
    /\ RemoveErr(<<"b">>) = "ErrNotExist"

\* what a handle opened on the name of rt has to hold: the bytes written
ReadsBack(f) ==
    /\ f.st = "open" /\ f.kind = "r" /\ f.name = rt.name
    /\ f.size = Len(rt.bytes)
    /\ ReadResult(f, MaxData) =
          [err |-> IF rt.bytes = <<>> THEN "EOF" ELSE "nil",
           n |-> Len(rt.bytes), data |-> rt.bytes]

\* Stat of every spelling of the name of rt reports a file of the size written,
\* and Open succeeds
StatsBack ==
    \A path \in Paths :
       normalizePath(path) = rt.name =>
          /\ StatResult(path).err = "nil"
          /\ StatResult(path).info.name = Base(rt.name)
          /\ StatResult(path).info.size = Len(rt.bytes)
          /\ ~StatResult(path).info.isDir
          /\ OpenFileErr(path, O_RDONLY) = "nil"

\* C9: after Create(P), Write(B)..., Close, Stat(P) reports a file of size
\* len(B), Open of the normalized P succeeds, and the handle it returns reads
\* exactly B.
C9_WriteCloseReadBack ==
    rt.stage = "closed" =>
       /\ StatsBack
       /\ rt.rh # 0 => ReadsBack(files[rt.rh])

\* C9 happens: two writes were made and closed, and the file was opened again
C9_Witness ==
    /\ rt.stage = "closed"
    /\ Len(rt.bytes) > 1
    /\ rt.rh # 0

\* C10: after Create(P), Write(B)..., Close, Sync, on the same instance or a
\* new one over the same container, Open(P) succeeds and the handle it returns
\* reads exactly B.
C10_ContentSurvivesSync ==
    rt.stage = "synced" =>
       /\ \A path \in Paths :
             normalizePath(path) = rt.name => OpenFileErr(path, O_RDONLY) = "nil"
       /\ rt.rh # 0 => ReadsBack(files[rt.rh])

\* C10 happens: two writes were made, closed and synced, and the reopened
\* session handed out a read handle on them
C10_Witness ==
    /\ rt.stage = "synced"
    /\ Len(rt.bytes) > 1
    /\ rt.rh # 0
    /\ r

\* the operations that go through ensureOpen, with any of their arguments
UsesSession ==
    \E path \in Paths :
       \/ Stat(path) \/ ReadDir(path) \/ MkdirAll(path) \/ Remove(path)
       \/ \E flag \in Flags : OpenFile(path, flag)

\* C11: the session opens lazily and both transitions are idempotent.  A new
\* filesystem has no session and has touched no container; Sync without a
\* session changes nothing, and opens or creates no container; with a session
\* open, every step but Sync keeps that session, its writer and the entries it
\* has written; Sync ends the session, and the first operation on the archive
\* after it opens one again.
C11_LazyIdempotentSession ==
    /\ ~r /\ ~rw /\ windex = <<>>
    /\ [](/\ rw => r
          /\ r => exists
          /\ ~r => windex = <<>> /\ ~current)
    /\ [][ /\ NewWithOptions => ~r' /\ ~rw' /\ exists' = exists /\ Archive' = Archive
           /\ (~r /\ Sync) => UNCHANGED <<exists, r, rw, Archive, files, fileWriteModeOpen>>
           /\ (r /\ Sync) => ~r' /\ ~rw'
           /\ (r /\ ~Sync) =>
                 /\ r' /\ rw' = rw /\ disk' = disk
                 /\ Len(windex') >= Len(windex)
                 /\ \A i \in 1..Len(windex) : windex'[i].Name = windex[i].Name
           /\ (~r /\ ~ensureOpenFails /\ ~(r' /\ exists' /\ rw' = ~options.ReadOnly)) =>
                 ~UsesSession
         ]_vars

\* C11 happens: a session wrote entries and was synced, and no session is open
C11_Witness ==
    /\ ~r /\ exists
    /\ Len(disk) > origin
    /\ \E h \in Handles : files[h].st = "closed"

\* C12: when Sync has run while the write handle of Create(P) was unclosed,
\* every later Write on that handle fails with 0 bytes written, and Open(P)
\* succeeds, as long as P has not been removed since: the entry begun before
\* the Sync is in the archive the next session reads.
C12_SyncWithOpenWriter ==
    \A h \in OpenWriters :
       (files[h].stale /\ files[h].flag = CreateFlag) =>
          /\ \A p \in {<<>>, <<1>>, <<1, 2>>} :
                WriteResult(files[h], p).err # "nil" /\ WriteResult(files[h], p).n = 0
          /\ files[h].name \notin removed =>
                /\ OpenFileErr(files[h].name, O_RDONLY) = "nil"
                /\ \E i \in 1..Len(disk) : disk[i].Name = files[h].name

\* C12 happens: Sync ran over an unclosed write handle that had taken a byte,
\* a new session is open, and it has handed out a read handle on the same name
C12_Witness ==
    \E h \in OpenWriters, g \in OpenReaders :
       /\ files[h].stale /\ files[h].flag = CreateFlag
       /\ r /\ ~files[g].stale
       /\ files[g].name = files[h].name
       /\ files[g].size > 0

\* what is left of a name below the directory d
Rest(d, name) == IF d = <<>> THEN name ELSE SubSeq(name, Len(d) + 2, Len(name))

\* the live names that lie below d, n segments down
Nested(d, n) ==
    { name \in LiveNames : Below(d, name) /\ Len(Split(Rest(d, name))) = n }

\* the next segments of the live names two or more levels below d
DirSegs(d) ==
    { Split(Rest(d, name))[1] :
         name \in { x \in LiveNames : Below(d, x) /\ Len(Split(Rest(d, x))) >= 2 } }

\* C13: ReadDir(D) returns one directory entry for each distinct next segment
\* of the live entries two or more levels below D, then one file entry for each
\* live entry that is a direct child of D: every directory precedes every file.
C13_ReadDirListsChildren ==
    \A path \in ArchivePaths :
       LET d == normalizePath(path)
           list == ReadDirResult(path).list
           k == Cardinality(DirSegs(d))
       IN  /\ ReadDirResult(path).err = "nil"
           /\ Len(list) = k + Cardinality(Nested(d, 1))
           /\ \A i \in 1..Len(list) : list[i].isDir = (i <= k)
           /\ { list[i].name : i \in 1..k } = DirSegs(d)
           /\ { list[i].name : i \in (k + 1)..Len(list) }
                 = { Base(name) : name \in Nested(d, 1) }

\* C13 happens: the session is open; the root lists the directory "a", which
\* two live entries lie under, before the file "ab"; and "a" lists the
\* directory "b" before the file "b"
C13_Witness ==
    /\ r
    /\ LiveNames = { <<"a", "/", "b">>, <<"a", "/", "b", "/", "c">>, <<"a", "b">> }
    /\ Len(ReadDirResult(<<"/">>).list) = 2
    /\ ReadDirResult(<<"/">>).list[1].isDir
    /\ ReadDirResult(<<"/">>).list[2].name = <<"a", "b">>
    /\ Len(ReadDirResult(<<"a">>).list) = 2
    /\ ReadDirResult(<<"a">>).list[1].isDir
    /\ ~ReadDirResult(<<"a">>).list[2].isDir

\* C14: for a path P that is no live file and has no live entry below it,
\* ReadDir(P) returns an empty list and no error, while Stat(P) and Open(P)
\* fail with os.ErrNotExist.
C14_NothingAtPath ==
    \A path \in ArchivePaths :
       LET p == normalizePath(path)
       IN  (p \notin LiveNames /\ ~\E name \in LiveNames : Below(p, name)) =>
              /\ ReadDirResult(path) = [err |-> "nil", list |-> <<>>]
              /\ StatResult(path).err = "ErrNotExist"
              /\ OpenFileErr(path, O_RDONLY) = "ErrNotExist"

\* C14 happens: the session is open, "ab" and "a/b/c" are live, and nothing is
\* at "a/c" nor at "b", the former after its removal
C14_Witness ==
    /\ r
    /\ LiveNames = { <<"a", "b">>, <<"a", "/", "b", "/", "c">> }
    /\ \E i \in 1..Len(Log) : Log[i].Name = <<"a", "/", "c">>
    /\ ReadDirResult(<<"a", "/", "c">>).list = <<>>
    /\ ReadDirResult(<<"b">>).list = <<>>
    /\ StatResult(<<"a", "/", "c">>).err = "ErrNotExist"

\* the modification times of the live entries below p
TimesBelow(p) ==
    { Log[i].ModTime :
         i \in { k \in 1..Len(Log) :
                   Latest(k) /\ ~Log[k].Deleted /\ Below(p, Log[k].Name) } }

\* C15: where no live file is named P, Stat(P) reports a directory if and only
\* if a live entry lies below P, and fails with not-found otherwise; the
\* modification time it reports is the latest among those entries.  Once the
\* last entry below P is removed, the directory is gone.
C15_DirectoryIffDescendant ==
    \A path \in ArchivePaths :
       LET p == normalizePath(path)
           res == StatResult(path)
       IN  p \notin LiveNames =>
              IF TimesBelow(p) = {}
              THEN res.err = "ErrNotExist"
              ELSE /\ res.err = "nil"
                   /\ res.info.isDir
                   /\ res.info.modTime \in TimesBelow(p)
                   /\ \A t \in TimesBelow(p) : t <= res.info.modTime

\* C15 happens: the root is a directory with an earlier live entry newer than a
\* later one, and "a/b" has stopped being one with the removal of "a/b/c"
C15_Witness ==
    /\ r
    /\ \E i \in 1..Len(Log), j \in 1..Len(Log) :
          /\ i < j
          /\ Latest(i) /\ ~Log[i].Deleted
          /\ Latest(j) /\ ~Log[j].Deleted
          /\ Log[i].ModTime > Log[j].ModTime
    /\ \E i \in 1..Len(Log) :
          Log[i].Name = <<"a", "/", "b", "/", "c">> /\ Latest(i) /\ Log[i].Deleted
    /\ StatResult(<<"a", "/", "b">>).err # "nil"

\* C16: on a read-write filesystem MkdirAll(P) returns a not-a-directory error
\* when a live file is named P and success for every other P; it appends
\* nothing to the archive, leaves the handles and the write session alone, and
\* Stat and ReadDir of every path return after it what they returned before:
\* the entries their index is read from (readerIndex) and the failure of the
\* session to open (ensureOpenFails), all that StatResult and ReadDirResult
\* read of the state, are what they were.
C16_MkdirAllIsInert ==
    /\ [](~options.ReadOnly =>
            \A path \in ArchivePaths :
               MkdirAllErr(path) =
                  IF normalizePath(path) \in LiveNames THEN "ENOTDIR" ELSE "nil")
    /\ [][ (\E path \in ArchivePaths : MkdirAll(path)) =>
              /\ Archive' = Archive /\ files' = files /\ WriteSession' = WriteSession
              /\ readerIndex' = readerIndex /\ ensureOpenFails' = ensureOpenFails ]_vars

\* C16 happens: in an open read-write session "a/b" is a live file, in the way
\* of MkdirAll, and "a/b/c" below it is not; "b" with no parent is accepted
C16_Witness ==
    /\ r /\ rw
    /\ <<"a", "/", "b">> \in LiveNames
    /\ <<"a", "/", "b", "/", "c">> \notin LiveNames
    /\ MkdirAllErr(<<"a", "/", "b">>) = "ENOTDIR"
    /\ MkdirAllErr(<<"a", "/", "b", "/", "c">>) = "nil"
    /\ MkdirAllErr(<<"b">>) = "nil"

\* C17: no read-write session exists whose options carry a non-zero snapshot
\* offset: every constructor refuses ReadOnly = false together with Offset # 0.
C17_NoReadWriteOffset == rw => options.Offset = 0

\* the names whose latest entry in log is no tombstone
LiveIn(log) ==
    { log[i].Name :
         i \in { k \in 1..Len(log) :
                   /\ ~log[k].Deleted
                   /\ \A j \in (k + 1)..Len(log) : log[j].Name # log[k].Name } }

\* the entries the container held at the snapshot offset
Snapshot == SubSeq(disk, 1, options.Offset)

\* C18: a read-only session pinned to the snapshot offset N answers Stat, Open
\* and ReadDir from the entries the container held at N, whatever has been
\* appended since: a name is found exactly when its latest entry among the
\* first N is live, a directory exactly when such a name lies below it, ReadDir
\* lists the next segments of those names, and every open read handle is bound
\* to the place and size of an entry of the snapshot.
C18_PinnedSnapshot ==
    (options.ReadOnly /\ options.Offset # 0) =>
       /\ \A path \in CallPaths :
             LET p == normalizePath(path)
                 live == LiveIn(Snapshot)
                 below == { name \in live : Below(p, name) }
                 list == ReadDirResult(path).list
             IN  /\ OpenFileErr(path, O_RDONLY) =
                       IF p \in live THEN "nil" ELSE "ErrNotExist"
                 /\ StatResult(path).err =
                       IF p \in live \/ below # {} THEN "nil" ELSE "ErrNotExist"
                 /\ StatResult(path).err = "nil" => StatResult(path).info.isDir = (p \notin live)
                 /\ ReadDirResult(path).err = "nil"
                 /\ { list[i].name : i \in 1..Len(list) }
                       = { Split(Rest(p, name))[1] : name \in below }
       /\ \A h \in OpenReaders :
             \E i \in 1..Len(Snapshot) :
                /\ normalizePath(Snapshot[i].Name) = files[h].name
                /\ Snapshot[i].Start = files[h].start
                /\ Snapshot[i].Size = files[h].size
                /\ ~Snapshot[i].Deleted

\* C18 happens: the session pinned to the first entry, the file "a/b", is open
\* and holds a read handle; a writer has since removed "a/b" and created "a";
\* Stat still finds "a/b" and Open does not find "a"
C18_Witness ==
    /\ r /\ options.ReadOnly /\ options.Offset = 1
    /\ Len(disk) = 3
    /\ disk[2].Name = <<"a", "/", "b">> /\ disk[2].Deleted
    /\ disk[3].Name = <<"a">> /\ ~disk[3].Deleted
    /\ OpenReaders # {}
    /\ StatResult(<<"/", "a", "/", "b">>).err = "nil"
    /\ OpenFileErr(<<"a">>, O_RDONLY) = "ErrNotExist"

\* the file entries ReadDir of the parent of name lists under the name
ListedAs(name) ==
    LET list == ReadDirResult(Dir(name)).list
    IN  { k \in 1..Len(list) : list[k].name = Base(name) /\ ~list[k].isDir }

\* C19: a name resolves to its most recent entry in the append log.  Open of
\* the name succeeds exactly when that entry is no tombstone, and the handle is
\* bound to the place and the size of that entry, whatever earlier entries of
\* the name say; ReadDir of the parent lists the file once, or not at all when
\* it is removed.  After Create(P), Write(B2), Close over earlier entries of P
\* (a file written before, or a removed one), Stat reports the size of B2 and
\* the handle Open returns reads B2.
C19_LatestEntryWins ==
    /\ \A i \in 1..Len(Log) :
          Latest(i) =>
             LET p == Log[i].Name
             IN  /\ OpenFileErr(p, O_RDONLY) =
                       IF Log[i].Deleted THEN "ErrNotExist" ELSE "nil"
                 /\ ~Log[i].Deleted =>
                       /\ openedFile(p, O_RDONLY).start = Log[i].Start
                       /\ openedFile(p, O_RDONLY).size = Log[i].Size
                 /\ Cardinality(ListedAs(p)) = IF Log[i].Deleted THEN 0 ELSE 1
    /\ (rt.stage = "closed" /\ \E i \in 1..Len(Log) : Log[i].Name = rt.name /\ ~Latest(i)) =>
          /\ \A path \in Paths :
                normalizePath(path) = rt.name =>
                   /\ OpenFileErr(path, O_RDONLY) = "nil"
                   /\ StatResult(path).info.size = Len(rt.bytes)
          /\ rt.rh # 0 =>
                /\ files[rt.rh].size = Len(rt.bytes)
                /\ ReadResult(files[rt.rh], MaxData).data = rt.bytes

\* C19 happens: the file "a" was removed and created again with one byte; the
\* log holds the old entry, its tombstone and the new entry, and a handle
\* opened on "a" after Close is bound to the new one
C19_Witness ==
    /\ Len(Log) = 3
    /\ \A i \in 1..3 : Log[i].Name = <<"a">>
    /\ ~Log[1].Deleted /\ Log[1].Size = 1
    /\ Log[2].Deleted
    /\ ~Log[3].Deleted /\ Log[3].Size = 1
    /\ rt.stage = "closed" /\ rt.rh # 0
    /\ files[rt.rh].start = Log[3].Start
    /\ files[rt.rh].start # Log[1].Start

\* the callers whose Create has returned a write handle that is still open
HoldsWriter == { c \in Callers : /\ calls[c].pc = "done" /\ calls[c].err = "nil"
                                 /\ calls[c].h \in OpenWriters }

\* C20: of two callers that invoke Create on one instance without a lock, under
\* every interleaving of their steps at most one holds a write handle, and a
\* caller whose call has returned while the other holds one was refused with
\* ErrFileWriteModeAlreadyOpen or had its handle closed.
C20_SecondWriterRejected == Cardinality(HoldsWriter) <= 1

\* what Stat and Open answer for a path
Answer(path) ==
    <<StatResult(path), OpenFileErr(path, O_RDONLY),
      IF OpenFileErr(path, O_RDONLY) = "nil"
      THEN openedFile(normalizePath(path), O_RDONLY) ELSE NoFile>>

\* C23: equivalent spellings address the same entry.  ReadDir of "", "." and
\* "/" return the same list in the same order; Stat and Open of P and of "/"+P
\* agree; a path that climbs above the root keeps no ".." and no leading slash,
\* and is answered as the path inside the root it resolves to.
C23_SpellingsAgree ==
    /\ ReadDirResult(<<".">>) = ReadDirResult(<<>>)
    /\ ReadDirResult(<<"/">>) = ReadDirResult(<<>>)
    /\ \A p \in Paths \cup ClimbPaths : Answer(<<"/">> \o p) = Answer(p)
    /\ \A p \in ClimbPaths \cup SlashPaths \cup Paths :
          /\ \A k \in 1..Len(Split(normalizePath(p))) : Split(normalizePath(p))[k] # DotDot
          /\ ~HasPrefix(normalizePath(p), <<"/">>)
    /\ normalizePath(<<".", ".">>) = <<>>
    /\ normalizePath(<<"a", "/", ".", ".", "/", ".", ".", "/", "b">>) = <<"b">>
    /\ Answer(<<"/", ".", ".", "/", "a", "/", "b">>) = Answer(<<"a", "/", "b">>)
    /\ Answer(<<".", ".", "/", "a">>) = Answer(<<"a">>)
    /\ ReadDirResult(<<".", ".">>) = ReadDirResult(<<>>)

\* C23 happens: the file "a/b" is live in an open session, the root lists the
\* directory "a", and "/../a/b" opens the file
C23_Witness ==
    /\ r
    /\ <<"a", "/", "b">> \in LiveNames
    /\ Len(ReadDirResult(<<".">>).list) = 1
    /\ ReadDirResult(<<".">>).list[1].name = <<"a">>
    /\ OpenFileErr(<<"/", ".", ".", "/", "a", "/", "b">>, O_RDONLY) = "nil"
    /\ StatResult(<<".", ".", "/", "a">>).info.isDir

\* the content of the file name: the bytes of its latest entry, to the end of
\* the data when that entry is still being written
ContentOf(name) ==
    LET i == CHOOSE k \in 1..Len(Log) : Log[k].Name = name /\ Latest(k)
    IN  IF current /\ i = Len(Log) THEN SubSeq(fdata, Log[i].Start + 1, Len(fdata))
        ELSE Section(Log[i].Start, 0, Log[i].Size)

\* Truncate(size) of the open handle h is made on a file of at least size bytes
\* and returns no error
Truncates(h, size) ==
    /\ files[h].st = "open"
    /\ \E k \in 1..Len(Log) : Log[k].Name = files[h].name
    /\ size <= Len(ContentOf(files[h].name))
    /\ TruncateResult(files[h], size).err = "nil"
    /\ Truncate(h, size)

\* C22: Truncate(size) on a handle of the file P with content C leaves P with
\* the first size bytes of C and the handle open with the flags it had; a
\* handle that Open returned then reads that prefix, and under a handle that
\* Create returned the prefix is the content of P.
C22_TruncateKeepsPrefix ==
    [][ \A h \in Handles, size \in TruncateSizes :
           Truncates(h, size) =>
              /\ files'[h].st = "open"
              /\ files'[h].flag = files[h].flag
              /\ files'[h].kind = files[h].kind
              /\ ContentOf(files[h].name)' = SubSeq(ContentOf(files[h].name), 1, size)
              /\ files[h].kind = "r" =>
                    ReadResult(files[h], MaxTruncData)'.data
                       = SubSeq(ContentOf(files[h].name), 1, size) ]_vars

\* C24: the closed state of a handle is terminal: Read, ReadAt, Seek, Write,
\* Close and Truncate of a closed handle fail, and no step takes a closed
\* handle back to open.
C24_ClosedIsTerminal ==
    /\ [](\A h \in Handles :
             files[h].st = "closed" =>
                /\ ReadResult(files[h], MaxData).err # "nil"
                /\ ReadAtResult(files[h], MaxData, 0).err # "nil"
                /\ SeekResult(files[h], 0, 0).err # "nil"
                /\ WriteResult(files[h], <<>>).err # "nil"
                /\ closeErr(files[h]) # "nil"
                /\ \A size \in TruncateSizes : TruncateResult(files[h], size).err # "nil")
    /\ [][ \A h \in Handles : files[h].st = "closed" => files'[h].st # "open" ]_vars

\* an entry of the log as it was appended: everything but the size, which the
\* writer fills in when the entry is flushed
Appended(e) == [Name |-> e.Name, Start |-> e.Start, Deleted |-> e.Deleted,
                ModTime |-> e.ModTime]

\* C26: the entry log only grows.  Every step of Create, Write, Close, Remove,
\* MkdirAll, Rename, Sync and Truncate leaves each entry appended before it in
\* its place, as it was appended, with the size it was flushed with, and leaves
\* the bytes written before it in place; a successful Remove adds exactly one
\* entry, the tombstone of the name.
C26_LogOnlyGrows ==
    [][ /\ Len(Log') >= Len(Log)
        /\ \A i \in 1..Len(Log) :
              /\ Appended(Log'[i]) = Appended(Log[i])
              /\ (Log'[i].Size # Log[i].Size) =>
                    (current /\ i = Len(Log) /\ Log[i].Size = 0)
        /\ Len(fdata') >= Len(fdata)
        /\ SubSeq(fdata', 1, Len(fdata)) = fdata
        /\ Len(Log') = Len(Log) + 1 =>
              \A path \in CallPaths :
                 (RemoveErr(path) = "nil" /\ Remove(path)) =>
                    RemoveAppendsTombstone(path) ]_vars

\* C26 happens: the file "a" the run started with was removed and created
\* again, and Truncate has rewritten it: the log holds the first entry, its
\* tombstone and the later entries behind them
C26_Witness ==
    /\ Len(Log) >= 4
    /\ origin = 1
    /\ ~Log[1].Deleted
    /\ Log[2].Deleted /\ Log[2].Name = Log[1].Name
    /\ ~Log[3].Deleted /\ Log[3].Name = Log[1].Name
    /\ r

\* C27: the write-session flag is set exactly while a handle returned by a
\* create-mode open is unclosed: after Sync and Close of the outstanding write
\* handle, in either order, the flag is clear and Create is accepted again.
C27_FlagIffOpenWriter == fileWriteModeOpen <=> OpenWriters # {}

\* C28: between the creation and the close of a write handle no other entry
\* header is appended to the archive: no step that leaves an open write handle
\* open lengthens the log, Remove of an existing file included.
C28_NoHeaderWhileWriting ==
    [][ \A h \in OpenWriters : files'[h].st = "open" => Len(Log') = Len(Log) ]_vars

\* C29: no path is a live file and a synthesized directory at once: no live
\* name lies below another live name, and ReadDir of no path returns two
\* entries of the same name.
C29_FileXorDirectory ==
    /\ \A p \in LiveNames, q \in LiveNames : ~HasPrefix(q, p \o <<"/">>)
    /\ \A path \in ProbePaths :
          LET list == ReadDirResult(path).list
          IN  \A i \in 1..Len(list), j \in 1..Len(list) :
                 list[i].name = list[j].name => i = j

\* an entry exists at path p: a live entry of that name, or entries below it
ExistsAt(p) == FindPos(getIndexV2, p) # 0 \/ getDirV2(getIndexV2, p) # <<>>

\* the step on which the Symlink call in progress comes to its end
SymlinkEnds ==
    calls[1].pc = "resolve" /\ calls[1].op = "Symlink" /\ calls'[1].pc = "done"

\* C21: in the legacy variant Symlink(target, link) fails with os.ErrExist and
\* appends nothing whenever an entry already exists at the link path, be it a
\* regular file, a synthesized directory or a symlink, one whose target does
\* not exist included; only when nothing exists there does it append one entry
\* with the symlink mode whose content is the target string, and Readlink of a
\* link returns that string unresolved.
C21_SymlinkNeverOverwrites ==
    /\ [](calls[1].pc = "done" /\ calls[1].op = "Readlink" /\ calls[1].err = "nil"
            => LET e == getIndexV2[FindPos(getIndexV2, calls[1].name)]
               IN  isSymlink(e) /\ calls[1].res = <<Section(e.Start, 0, e.Size)>>)
    /\ [][ SymlinkEnds =>
              IF ExistsAt(calls[1].name)
              THEN calls'[1].err = "os.ErrExist" /\ Log' = Log /\ fdata' = fdata
              ELSE /\ calls'[1].err = "nil"
                   /\ Len(Log') = Len(Log) + 1
                   /\ SubSeq(Log', 1, Len(Log)) = Log
                   /\ Log'[Len(Log')].Name = calls[1].name
                   /\ Log'[Len(Log')].Mode = "symlink"
                   /\ Log'[Len(Log')].Start = Len(fdata)
                   /\ Log'[Len(Log')].Size = Len(calls[1].target)
                   /\ fdata' = fdata \o calls[1].target ]_vars

\* the live entry at path p is a symlink
LinkAt(p) ==
    LET i == FindPos(Filter(Log), p)
    IN  i # 0 /\ Filter(Log)[i].Mode = "symlink"

\* the path the symlink at p stands for: its content, taken from the directory
\* of the link when it is relative
LinkTarget(p) ==
    LET e == Filter(Log)[FindPos(Filter(Log), p)]
        target == SubSeq(fdata, e.Start + 1, e.Start + e.Size)
    IN  normalizePathV2(IF target # <<>> /\ target[1] = "/" THEN target
                        ELSE FilepathJoin(filepathDir(p), target))

\* where the chain of links from p ends, <<>> when it has not ended after
\* fuel links
RECURSIVE ChainEnd(_, _)
ChainEnd(p, fuel) ==
    IF ~LinkAt(p) THEN <<p>>
    ELSE IF fuel = 0 THEN <<>>
    ELSE ChainEnd(LinkTarget(p), fuel - 1)

\* the chain from p has no cycle: it ends before it has passed more links
\* than there are live entries
Acyclic(p) == ChainEnd(p, Len(Filter(Log))) # <<>>

\* a call of Stat, Open or ReadDir
Follows(call) == call.op \in {"Stat", "Open", "ReadDir"}

\* what the call returns when its chain ends at path q
ResultAt(call, q) ==
    LET index == Filter(Log)
        leaf == IF call.op = "Open" THEN openFileLeaf(index, q)
                ELSE IF call.op = "ReadDir" THEN ReadDirLeaf(index, q)
                ELSE StatLeaf(index, q)
    IN  IF call.op = "Stat" /\ leaf.err = "nil" /\ q # call.name
        THEN [leaf EXCEPT !.res = <<[leaf.res[1] EXCEPT !.name = Base(call.name)]>>]
        ELSE leaf

\* C25: in the legacy variant Stat, Open and ReadDir on a symlink resolve the
\* target again and again until an entry that is no link is reached, with no
\* cycle detection and no bound: on a chain without a cycle the call ends with
\* the result of the final target, Stat under the queried name; on a chain
\* that refers to itself or back to an earlier link the call never returns.
C25_LinksFollowedWithoutBound ==
    /\ [](calls[1].pc = "done" /\ Follows(calls[1])
            => /\ Acyclic(calls[1].name)
               /\ LET q == ChainEnd(calls[1].name, Len(Filter(Log)))[1]
                  IN  /\ calls[1].err = ResultAt(calls[1], q).err
                      /\ calls[1].res = ResultAt(calls[1], q).res)
    /\ [][ calls[1].pc = "resolve" /\ Follows(calls[1]) /\ LinkAt(calls[1].cur)
            => calls'[1].pc = "resolve" /\ calls'[1].cur = LinkTarget(calls[1].cur) ]_vars
    /\ (calls[1].pc = "resolve" /\ Follows(calls[1]) /\ Acyclic(calls[1].cur))
          ~> (calls[1].pc = "done")
    /\ [](calls[1].pc = "resolve" /\ ~Acyclic(calls[1].cur)
            => [](calls[1].pc = "resolve"))

\* Stat of "a" has followed the link "a" to the link "b", which leads back
C25_Witness ==
    /\ calls[1].pc = "resolve" /\ calls[1].op = "Stat"
    /\ calls[1].name = <<"a">> /\ calls[1].cur = <<"b">>
    /\ LinkAt(<<"a">>) /\ LinkAt(<<"b">>)
    /\ LinkTarget(<<"b">>) = <<"a">>

====
